---- MODULE Spec2Model ----
(***************************************************************************)
(* Model of the game scene of prpr (src/prpr/src/scene/game.rs): the       *)
(* Starting / BeforeMusic / Playing / Ending phases, the pause overlay,    *)
(* the keyboard controls and the exercise range.                           *)
(*                                                                         *)
(* Times are integers in centiseconds (0.01 s): BEFORE_DURATION = 1.2 s is *)
(* 120, the 0.01 s countdown of a key resume is 1.  Between two frames    *)
(* the wall clock advances by one or more steps of Ticks.                  *)
(***************************************************************************)
EXTENDS Integers, Sequences, FiniteSets, TLC

\* ------------------------------------------------------------- constants
PAUSE_CLICK_INTERVAL == 70
WAIT_TIME == 50
AFTER_TIME == 70
AFTER_EXTRA == 30
BEFORE_DURATION == 120
RESUME_REWIND == 100
KEY_REWIND == 1
SEEK_BACK == 200
SEEK_FORWARD == 500
EXERCISE_GAP == 300
BAD_TIME == 50
LIMIT_BAD == 18
\* 1.0 - 1e-3, in thousandths of the normal speed
SPEED_MIN == 999
\* EndingScene::BPM_WAIT_TIME, and the logical time an ending scene starts at
BPM_WAIT_TIME == 24
ENDING_START == -40
\* loading.rs: BEFORE_TIME, TRANSITION_TIME and WAIT_TIME of the loading scene
BEFORE_TIME == 100
TRANSITION_TIME == 140
LOADING_WAIT_TIME == 0
\* f32::NEG_INFINITY, below every time of the model
NEG_INFINITY == -1000000
\* f32::INFINITY, above every time of the model
INFINITY == 1000000
\* the slots of attach_ui
UI_SLOTS == 7
\* a speed of 1.0 and the difference of speeds that recreates the music, in
\* thousandths
SPEED_ONE == 1000
SPEED_EPS == 10
\* the bits of Mods
AUTOPLAY == 1
FLIP_X == 2
FADE_OUT == 4
\* the score of a run and the full-perfect bonus
TOTAL == 1000000
BONUS == 100000

\* ---------------------------------------------------------------- bounds
\* wall-clock steps between two frames
Ticks == {50}
\* logical time stops advancing here (the scene has resolved long before)
MaxTime == 600
\* the resume button is not tapped when it would rewind below -MaxRewind
MaxRewind == 200
\* the wall time since the last tap on the pause button is counted up to here
MaxSinceTap == 80

TrackLengths == {400}
\* a track shorter than an offset of 0.5 s plus the gap of the exercise range
ShortTracks == {320}
Offsets == {-50, 0, 50}
NoteTime == 100
\* the chart's BPM (one BPM for the whole chart); DefaultBpm where the offset
\* buttons are not in use
Bpms == {750, 1500}
DefaultBpm == 750
\* config.speed, in thousandths of the normal speed
Speeds == {998, 999, 1000}
\* positions of the speed slider (steps of 0.05 within 0.5..2.0)
SliderSpeeds == {500, 1000}
\* the adjustments the offset buttons are tapped to (milliseconds)
InfoOffsets == {-20, -10, -1, 0, 1, 10, 20}

Modes == {"Normal", "TweakOffset", "Exercise", "NoRetry", "View"}
States == {"Starting", "BeforeMusic", "Playing", "Ending"}
Keys == {"none", "Space", "Left", "Right", "Q"}

None == <<>>
Some(x) == <<x>>

Max(a, b) == IF a >= b THEN a ELSE b
Min(a, b) == IF a <= b THEN a ELSE b
\* f32::clamp(lo, hi); Rust panics when lo > hi, the callers are guarded
Clamp(x, lo, hi) == Max(lo, Min(x, hi))

VARIABLES
    pc,                    \* position of the frame loop
    mode, interactive, double_click_to_pause, offset, track_length, bpm,
    closed,                \* the build has the feature "closed"
    autoplay, speed, offline_mode, adjust_time,
    upload_fn, player, chart_id,   \* whether there is one
    state, tm, music, res_time,
    info_offset,           \* the adjustment of offset-tweak mode, in milliseconds
    pop_result,            \* the payload of a PopWithResult: None or Some(ms)
    ending,                \* the EndingScene the game scene made, None before
    RE_UPLOAD,             \* the thread-local flag of ending.rs
    dialog,                \* the upload-failed dialog is open
    loading,               \* the LoadingScene, None once it is gone
    effect,                \* an Effect, None where none is looked at
    chart,                 \* a Chart with the effects of its scene, None where none is looked at
    result,                \* the tallies of a Judge and its PlayResult, None where none is looked at
    cfg,                   \* a Config on its way into a scene, None where none is looked at
    note,                  \* a Note with the Resource it is updated and rendered in, None where none is looked at
    page,                  \* the SettingsPage with the data it edits and the data last saved, None where none is looked at
    stored,                \* a SimpleRecord, the record merged into it and what update returned, None where none is looked at
    pause_rewind, pause_first_time,
    exercise_range, exercise_press, first_in,
    should_exit, next_scene,
    notes, judge, bad_notes,
    disable_audio,
    calls,                 \* what the last handler did, in order
    since_tap              \* wall time since the last tap on the pause button

config == <<mode, interactive, double_click_to_pause, offset, track_length, bpm,
            closed, autoplay, speed, offline_mode, adjust_time, upload_fn, player,
            chart_id>>
scene == <<state, tm, music, res_time, pause_rewind, pause_first_time,
           exercise_range, exercise_press, first_in, should_exit, next_scene,
           notes, judge, bad_notes, disable_audio, info_offset, pop_result, ending>>
\* what the game scene's handlers do not touch
others == <<loading, effect, chart, result, cfg, note, page, stored>>
outside == <<RE_UPLOAD, dialog, others>>
vars == <<pc, config, scene, calls, since_tap, outside>>

\* ---------------------------------------------------------- time manager
TmReset(t) == [t EXCEPT !.now = 0, !.paused = FALSE]
TmSeekTo(t, pos) == [t EXCEPT !.now = pos]
TmPause(t) == [t EXCEPT !.paused = TRUE]
TmResume(t) == [t EXCEPT !.paused = FALSE]
\* adjust_time is off (Config::default): no drift correction is applied
TmUpdate(t, music_time) == t
\* the wall clock advances by dt
TmAdvance(t, dt) == IF t.paused \/ t.now >= MaxTime THEN t ELSE [t EXCEPT !.now = @ + dt]

\* ------------------------------------------------------------ audio engine
MusicPlay(m) == [m EXCEPT !.paused = FALSE]
MusicPause(m) == [m EXCEPT !.paused = TRUE]
MusicSeekTo(m, pos, len) == [m EXCEPT !.pos = Clamp(pos, 0, len)]
MusicAdvance(m, dt, len) == IF m.paused THEN m ELSE [m EXCEPT !.pos = Min(@ + dt, len)]
NewMusic == [pos |-> 0, paused |-> TRUE, playback_rate |-> speed]

\* ------------------------------------------------------------------ judge
JudgeNew == [judged |-> 0]
JudgeReset(j) == [j EXCEPT !.judged = 0]
ChartReset(ns) == [i \in DOMAIN ns |-> "NotJudged"]

\* --------------------------------------------------------- the scene value
\* The handlers are sequential code: each is written as a function of the
\* scene value g, and an action commits the value its handler returns.
Cur ==
    [state |-> state, tm |-> tm, music |-> music, res_time |-> res_time,
     pause_rewind |-> pause_rewind, pause_first_time |-> pause_first_time,
     exercise_range |-> exercise_range, exercise_press |-> exercise_press,
     first_in |-> first_in, should_exit |-> should_exit, next_scene |-> next_scene,
     notes |-> notes, judge |-> judge, bad_notes |-> bad_notes,
     disable_audio |-> disable_audio, info_offset |-> info_offset,
     pop_result |-> pop_result, ending |-> ending, calls |-> <<>>]

Commit(g) ==
    /\ state' = g.state
    /\ tm' = g.tm
    /\ music' = g.music
    /\ res_time' = g.res_time
    /\ pause_rewind' = g.pause_rewind
    /\ pause_first_time' = g.pause_first_time
    /\ exercise_range' = g.exercise_range
    /\ exercise_press' = g.exercise_press
    /\ first_in' = g.first_in
    /\ should_exit' = g.should_exit
    /\ next_scene' = g.next_scene
    /\ notes' = g.notes
    /\ judge' = g.judge
    /\ bad_notes' = g.bad_notes
    /\ disable_audio' = g.disable_audio
    /\ info_offset' = g.info_offset
    /\ pop_result' = g.pop_result
    /\ ending' = g.ending
    /\ calls' = g.calls

Call(g, name) == [g EXCEPT !.calls = Append(@, name)]

\* a reset that keeps the trails of bad notes
ResetKeepsTrails(g) ==
    [g EXCEPT !.judge = JudgeReset(@),
              !.notes = ChartReset(@),
              !.music = MusicSeekTo(MusicPause(@), 0, track_length),
              !.tm = TmReset([@ EXCEPT !.speed = speed]),
              !.state = "Starting",
              !.pause_rewind = None]

\* reset!($self, $res, $tm)
ResetMacro(g) ==
    [g EXCEPT !.bad_notes = <<>>,
              !.judge = JudgeReset(@),
              !.notes = ChartReset(@),
              !.music = MusicSeekTo(MusicPause(@), 0, track_length),
              !.tm = TmReset([@ EXCEPT !.speed = speed]),
              !.state = "Starting",
              !.pause_rewind = None]

\* reset_speed!($self, $res, $tm)
ResetSpeedMacro(g) ==
    [g EXCEPT !.bad_notes = <<>>,
              !.judge = JudgeReset(@),
              !.notes = ChartReset(@),
              !.music = MusicSeekTo(MusicPause(@), 0, track_length),
              !.tm = TmReset([@ EXCEPT !.speed = speed]),
              !.state = "Starting"]

\* ----------------------------------------------------------------- update
\* game.rs:1042-1049: the exercise range's end was passed
ExerciseExceeded(g) ==
    mode = "Exercise" /\ g.tm.now > g.exercise_range.end /\ ~g.tm.paused

\* the reset without putting the phase back
ExerciseResetToStarting(g) ==
    IF ExerciseExceeded(g)
    THEN LET r == Call(ResetMacro(g), "exercise.reset") IN
         [r EXCEPT !.tm = TmPause(TmSeekTo(@, g.exercise_range.start)),
                   !.music = MusicPause(@)]
    ELSE g

ExerciseReset(g) ==
    IF ExerciseExceeded(g)
    THEN LET r == Call(ResetMacro(g), "exercise.reset") IN
         [r EXCEPT !.state = g.state,
                   !.tm = TmPause(TmSeekTo(@, g.exercise_range.start)),
                   !.music = MusicPause(@)]
    ELSE g

\* game.rs:1054, 1071, 1079, 1086: the conditions that end a phase
StartingOver(time) == time >= BEFORE_DURATION
MusicStartsAfterZero(time) == time > 0
MusicStarts(time) == time >= 0
PlayingOverAtBound(time, len) == time >= len + WAIT_TIME
PlayingOver(time, len) == time > len + WAIT_TIME
EndingOver(t) == t >= AFTER_TIME + AFTER_EXTRA

\* game.rs:1109-1129: what the scene resolves to, by mode
EndingResult(m) ==
    CASE m \in {"Normal", "NoRetry", "View"} -> Some("Overlay")
      [] m = "TweakOffset" -> Some("PopWithResult")
      [] OTHER -> None

\* game.rs:350-358, config.rs:173-175: config.autoplay() of the running scene
Autoplay == mode = "TweakOffset" \/ (mode # "Exercise" /\ autoplay)

\* the upload data made whatever the speed
RecordDataAtAnySpeed ==
    IF closed /\ upload_fn /\ ~offline_mode /\ ~Autoplay /\ player /\ chart_id
    THEN Some("data") ELSE None

\* game.rs:1087-1099: the upload data, made in builds with the feature "closed"
RecordData ==
    IF closed /\ upload_fn /\ ~offline_mode /\ ~Autoplay /\ speed >= SPEED_MIN
          /\ player /\ chart_id
    THEN Some("data") ELSE None

\* game.rs:1100-1108: the local record
SimpleRecord(j) ==
    IF Autoplay \/ speed < SPEED_MIN THEN None ELSE Some([score |-> j.judged])

\* ending.rs:94, 192: the task upload_fn returns for the bytes it is given
UploadFn(data) == [data |-> data]

\* ending.rs:64-135: EndingScene::new
EndingSceneNew(record_data, record) ==
    LET task == IF upload_fn /\ record_data # None
                THEN Some(UploadFn(record_data[1])) ELSE None IN
    [bgm |-> [NewMusic EXCEPT !.playback_rate = SPEED_ONE], target |-> None, next |-> 0,
     upload_task |-> task,
     update_state |-> IF task # None THEN None ELSE Some("local"),
     rated |-> task # None,
     record_data |-> record_data, record |-> record]

\* game.rs:1087-1129: the scene resolves
Resolve(g) ==
    LET m == [g EXCEPT !.next_scene = EndingResult(mode), !.pop_result = None] IN
    IF EndingResult(mode) = Some("Overlay")
    THEN LET e == EndingSceneNew(RecordData, SimpleRecord(g.judge))
              n == Call(m, "ending.new")
         IN [(IF e.upload_task # None THEN Call(n, "upload_fn") ELSE n) EXCEPT
                 !.ending = Some(e)]
    ELSE m

\* game.rs:1052-1134: the phase machine; the result carries the frame's time
PhaseStep(g) ==
    LET time == g.tm.now IN
    CASE g.state = "Starting" ->
           IF StartingOver(time)
           THEN LET t1 == TmSeekTo(TmReset(g.tm), g.exercise_range.start)
                    fi == g.first_in /\ mode = "Exercise"
                    t2 == IF fi THEN TmPause(t1) ELSE t1
                IN [g |-> [g EXCEPT !.state = "BeforeMusic", !.tm = t2,
                                    !.first_in = IF fi THEN FALSE ELSE @],
                    time |-> t2.now]
           ELSE [g |-> g, time |-> g.exercise_range.start]
      [] g.state = "BeforeMusic" ->
           IF MusicStarts(time)
           THEN [g |-> [Call(g, "music.play") EXCEPT
                                 !.music = MusicPlay(MusicSeekTo(@, time, track_length)),
                                 !.state = "Playing"],
                 time |-> time]
           ELSE [g |-> g, time |-> time]
      [] g.state = "Playing" ->
           IF PlayingOver(time, track_length)
           THEN [g |-> [g EXCEPT !.state = "Ending"], time |-> time]
           ELSE [g |-> g, time |-> time]
      [] OTHER ->
           LET t == time - track_length - WAIT_TIME IN
           IF EndingOver(t)
           THEN [g |-> Resolve(g), time |-> track_length]
           ELSE [g |-> g, time |-> track_length]

\* the music time without the floor at 0
ResTimeUnfloored(time, off) == time - off

\* game.rs:1135
ResTime(time, off) == Max(time - off, 0)

\* the judge running whether or not the time manager is paused
JudgeRunsPaused(paused, m) == m # "View"

\* game.rs:1137
JudgeRuns(paused, m) == ~paused /\ m # "View"

\* Judge::update on one click note at NoteTime, which the player hits late:
\* the first update inside the bad window judges it Bad and leaves a bad-note
\* trail, an update past the window judges it Miss
JudgeUpdate(g) ==
    LET d == g.res_time - NoteTime IN
    IF g.notes[1] # "NotJudged" \/ d < 0 THEN g
    ELSE IF d <= LIMIT_BAD
         THEN [g EXCEPT !.notes[1] = "Judged", !.judge.judged = @ + 1,
                        !.bad_notes = Append(@, g.res_time)]
         ELSE [g EXCEPT !.notes[1] = "Judged", !.judge.judged = @ + 1]

\* the reverse order: chart.update, then judge.update
ChartThenJudge(g) ==
    LET c == Call(g, "chart.update") IN
    IF JudgeRuns(c.tm.paused, mode) THEN Call(JudgeUpdate(c), "judge.update") ELSE c

\* game.rs:1137-1156: judge.update, then chart.update
JudgeAndChart(g) ==
    LET j == IF JudgeRuns(g.tm.paused, mode)
             THEN Call(JudgeUpdate(g), "judge.update") ELSE g
    IN Call(j, "chart.update")

\* game.rs:1165-1180
SpaceKey(g) ==
    IF g.tm.paused
    THEN IF g.state = "Playing"
         THEN [Call(g, "key.resume") EXCEPT !.music = MusicPlay(@), !.tm = TmResume(@),
                        !.pause_rewind = Some(<<g.tm.now, KEY_REWIND>>),
                        !.disable_audio = TRUE]
         ELSE g
    ELSE IF g.state = "Playing"
         THEN [Call(g, "key.pause") EXCEPT
                  !.music = MusicPause(@), !.pause_rewind = None, !.tm = TmPause(@)]
         ELSE g

\* game.rs:915-917
Interactive(g) == interactive /\ g.state = "Playing"

\* a seek back that is not held at 0
LeftKeyUnclamped(g) ==
    LET dst == g.music.pos - SEEK_BACK IN
    [Call(g, "key.seek") EXCEPT !.res_time = @ - SEEK_BACK,
              !.music = MusicSeekTo(@, dst, track_length),
              !.tm = TmSeekTo(@, dst)]

\* game.rs:1182-1187
LeftKey(g) ==
    LET dst == Max(g.music.pos - SEEK_BACK, 0) IN
    [Call(g, "key.seek") EXCEPT !.res_time = @ - SEEK_BACK,
              !.music = MusicSeekTo(@, dst, track_length),
              !.tm = TmSeekTo(@, dst)]

\* game.rs:1188-1196
RightKey(g) ==
    LET dst == Min(g.music.pos + SEEK_FORWARD, track_length) IN
    [Call(g, "key.seek") EXCEPT !.res_time = @ + SEEK_FORWARD,
              !.music = MusicSeekTo(@, dst, track_length),
              !.tm = TmSeekTo(@, dst),
              !.pause_rewind = Some(<<dst, KEY_REWIND>>),
              !.disable_audio = TRUE]

\* game.rs:1165-1200
KeysStep(g, k) ==
    LET a == IF interactive /\ k = "Space" THEN SpaceKey(g) ELSE g IN
    IF ~Interactive(a) THEN a
    ELSE CASE k = "Left" -> LeftKey(a)
           [] k = "Right" -> RightKey(a)
           [] k = "Q" -> [a EXCEPT !.should_exit = TRUE]
           [] OTHER -> a

\* game.rs:919-921: chart.offset + config.offset + info_offset, at the
\* resolution of the model's times
Offset(g) == offset + (g.info_offset \div 10)

\* GameScene::update
UpdateFn(g, k) ==
    LET a == IF g.state = "Playing"
             THEN Call([g EXCEPT !.tm = TmUpdate(@, g.music.pos)], "time.update")
             ELSE g
        b == ExerciseReset(a)
        p == PhaseStep(b)
        c == [p.g EXCEPT !.res_time = ResTime(p.time, Offset(p.g))]
        d == JudgeAndChart(c)
    IN KeysStep(d, k)

\* The texts the player may return for the two exercise fields, as parse_time
\* reads them: no time at all, or a time
TextTimes == {0, 20, 310, 400}
Inputs ==
    {[id |-> i, t |-> t] :
        i \in {"exercise_start", "exercise_end", "other"},
        t \in {None} \cup {Some(v) : v \in TextTimes}}

\* game.rs:1204-1233: the end of GameScene::update, when take_input() has a
\* text for the scene
TakeInput(g, input) ==
    LET lo == Min(Offset(g), 0)
        t == input.t[1]
        r == g.exercise_range
    IN CASE input.id = "exercise_start" ->
              IF input.t = None THEN Call(g, "ex-invalid-format")
              ELSE IF ~(lo <= t /\ t < Max(Min(track_length, r.end - EXERCISE_GAP), lo))
                   THEN Call(g, "ex-time-out-of-range")
                   ELSE Call([g EXCEPT !.exercise_range.start = t], "ex-time-set")
         [] input.id = "exercise_end" ->
              IF input.t = None THEN Call(g, "ex-invalid-format")
              ELSE IF ~(Min(Max(r.start + EXERCISE_GAP, lo), track_length) <= t
                        /\ t < track_length)
                   THEN Call(g, "ex-time-out-of-range")
                   ELSE Call([g EXCEPT !.exercise_range.end = t], "ex-time-set")
         [] OTHER -> Call(g, "return_input")


\* ----------------------------------------------------------------- render
\* A frame's touch: a Started tap on the pause button or on an overlay
\* button, a Started touch on a handle of the exercise bar, or a Moved /
\* Ended event of the finger that drags a handle, at bar position p.
DragTargets == {100, 400}
Taps ==
    {[kind |-> k, p |-> 0] :
        k \in {"none", "pause", "back", "retry", "resume", "cancel", "save_speed"}}
BarTouches ==
    {[kind |-> k, p |-> 0] : k \in {"grab_start", "grab_end", "grab_cur"}}
    \cup {[kind |-> k, p |-> q] : k \in {"move", "release"}, q \in DragTargets}

\* note.rs:441-444, game.rs:1347: bad_notes.retain(|dummy| dummy.render(res))
RetainBadNotes(g) ==
    [g EXCEPT !.bad_notes = SelectSeq(@, LAMBDA t : ~(g.res_time > t + BAD_TIME))]

\* game.rs:489: the tap is taken as the first of a double tap
FirstTap(t, first, dctp) ==
    (first = None \/ t - first[1] > PAUSE_CLICK_INTERVAL) /\ dctp

\* game.rs:477-498: the pause button
PauseButton(g, tch) ==
    IF interactive /\ ~g.tm.paused /\ g.pause_rewind = None /\ tch.kind = "pause"
    THEN LET t == g.tm.now IN
         IF FirstTap(t, g.pause_first_time, double_click_to_pause)
         THEN [g EXCEPT !.pause_first_time = Some(t)]
         ELSE [Call(g, "button.pause") EXCEPT
                        !.pause_first_time = None,
                        !.music = MusicPause(@),
                        !.tm = TmPause(@)]
    ELSE g

\* game.rs:720-735: the overlay button a Started touch hits
Hit(tch) ==
    CASE tch.kind = "back" -> Some(-1)
      [] tch.kind = "retry" -> Some(0)
      [] tch.kind = "resume" -> Some(1)
      [] OTHER -> None

\* the hit taken as it is, in every mode
ClickedInAnyMode(tch, m) == Hit(tch)

\* game.rs:688, 736-738: a hit on retry is dropped in NoRetry mode
Clicked(tch, m) ==
    IF m = "NoRetry" /\ Hit(tch) = Some(0) THEN None ELSE Hit(tch)

\* game.rs:755-759
OverlayRetry(g) ==
    LET r == Call(ResetMacro(g), "button.retry") IN
    [r EXCEPT !.pause_rewind = Some(<<r.tm.now, KEY_REWIND>>), !.disable_audio = TRUE]

\* resuming where the pause was
ResumeInPlace(now) == now

\* game.rs:777-778: where the resume button puts logical time and the music
ResumeTarget(now) == now - RESUME_REWIND

\* game.rs:739, 760-782
OverlayResume(g, position) ==
    LET over == g.tm.now > g.exercise_range.end
        t0 == IF over THEN TmSeekTo(g.tm, g.exercise_range.start) ELSE g.tm
        m0 == IF over THEN MusicSeekTo(g.music, g.exercise_range.start, track_length) ELSE g.music
        pos == IF over THEN g.exercise_range.start ELSE position
        dst == pos - RESUME_REWIND
        m1 == IF dst < 0 THEN MusicPause(MusicPlay(m0))
              ELSE MusicSeekTo(MusicPlay(m0), dst, track_length)
        now == t0.now
        t1 == TmSeekTo(TmResume([t0 EXCEPT !.speed = speed]), ResumeTarget(now))
    IN [Call(g, "button.resume") EXCEPT
                 !.music = MusicSeekTo(m1, ResumeTarget(now), track_length),
                 !.res_time = @ - RESUME_REWIND,
                 !.state = IF dst < 0 THEN "BeforeMusic" ELSE @,
                 !.tm = t1,
                 !.pause_rewind = Some(<<t1.now, RESUME_REWIND>>),
                 !.disable_audio = TRUE]

Abs(x) == IF x < 0 THEN -x ELSE x

\* game.rs:740, 991: the time manager runs at another speed than configured
SpeedChanged(g) == Abs(g.tm.speed - speed) > SPEED_EPS

\* game.rs:740-750: retry and resume recreate the music for a changed speed
RecreateMusic(g, c) ==
    IF c # None /\ c # Some(-1) /\ SpeedChanged(g)
    THEN Call([g EXCEPT !.music = NewMusic], "music.recreate")
    ELSE g

\* game.rs:719-785
OverlayButtons(g, tch) ==
    IF ~interactive THEN g
    ELSE LET c == Clicked(tch, mode)
             h0 == IF Hit(tch) = Some(0) THEN Call(g, "clicked.retry") ELSE g
             h == RecreateMusic(h0, c)
         IN CASE c = Some(-1) -> [h EXCEPT !.should_exit = TRUE]
              [] c = Some(0) -> OverlayRetry(h)
              [] c = Some(1) -> OverlayResume(h, g.music.pos)
              [] OTHER -> h

\* game.rs:803
Sp == Min(offset + (info_offset \div 10), 0)

\* game.rs:812-836: a Started touch on a handle takes it
GrabHandle(g, tch) ==
    IF g.exercise_press # None THEN g
    ELSE CASE tch.kind = "grab_start" -> [g EXCEPT !.exercise_press = Some(-1)]
           [] tch.kind = "grab_end" -> [g EXCEPT !.exercise_press = Some(1)]
           [] tch.kind = "grab_cur" -> [g EXCEPT !.exercise_press = Some(0)]
           [] OTHER -> g

\* the bar position of the dragging finger's last event of the frame
FingerAt(g, tch) ==
    CASE tch.kind \in {"move", "release"} -> Some(tch.p)
      [] tch.kind = "grab_start" /\ g.exercise_press = Some(-1) -> Some(g.exercise_range.start)
      [] tch.kind = "grab_end" /\ g.exercise_press = Some(1) -> Some(g.exercise_range.end)
      [] tch.kind = "grab_cur" /\ g.exercise_press = Some(0) -> Some(g.tm.now)
      [] OTHER -> None

\* game.rs:842-853
DragClamp(g, ctrl, p) ==
    IF track_length - Sp <= EXERCISE_GAP \/ ctrl = 0
    THEN Clamp(p, Sp, track_length)
    ELSE IF ctrl = -1
         THEN Clamp(p, Sp, g.exercise_range.end - EXERCISE_GAP)
         ELSE Clamp(p, g.exercise_range.start + EXERCISE_GAP, track_length)

\* game.rs:842-853: the bounds of the clamp are crossed, and f32::clamp panics
ClampCrossed(g, ctrl) ==
    /\ ~(track_length - Sp <= EXERCISE_GAP \/ ctrl = 0)
    /\ IF ctrl = -1 THEN Sp > g.exercise_range.end - EXERCISE_GAP
       ELSE g.exercise_range.start + EXERCISE_GAP > track_length

\* game.rs:838-868
DragHandle(g, tch) ==
    LET at == FingerAt(g, tch) IN
    IF g.exercise_press = None \/ at = None THEN g
    ELSE IF ClampCrossed(g, g.exercise_press[1]) THEN Call(g, "clamp.panic")
    ELSE LET ctrl == g.exercise_press[1]
             p == DragClamp(g, ctrl, at[1])
             a == CASE ctrl = 0 -> [g EXCEPT !.tm = TmSeekTo(@, p),
                                             !.music = MusicSeekTo(@, p, track_length)]
                    [] ctrl = -1 -> [g EXCEPT !.exercise_range.start = p]
                    [] OTHER -> [g EXCEPT !.exercise_range.end = p]
         IN IF tch.kind = "release" THEN [a EXCEPT !.exercise_press = None] ELSE a

\* game.rs:898-911
RewindCountdown(g) ==
    IF g.pause_rewind = None THEN g
    ELSE LET dt == g.tm.now - g.pause_rewind[1][1]
             t == g.pause_rewind[1][2] - dt
         IN IF t <= 0 THEN [g EXCEPT !.pause_rewind = None, !.disable_audio = FALSE] ELSE g

\* GameScene::overlay_ui
OverlayUi(g, tch) ==
    LET a == IF g.tm.paused
             THEN DragHandle(GrabHandle(OverlayButtons(g, tch), tch), tch)
             ELSE g
    IN Call(RewindCountdown(a), "overlay_ui")

\* game.rs:949: a quarter of a beat in milliseconds, kept within 20..500
BeatUnclamped(b) == 15000 \div b
Beat(b) == Clamp(15000 \div b, 20, 500)

\* game.rs:950-969: the change each offset button makes, in milliseconds
OffsetStep(kind, b) ==
    CASE kind = "lg_sub" -> -Beat(b)
      [] kind = "lg_add" -> Beat(b)
      [] kind = "sm_sub" -> -10
      [] kind = "sm_add" -> 10
      [] kind = "ti_sub" -> -1
      [] kind = "ti_add" -> 1
      [] OTHER -> 0

\* closing without a result
CancelWithoutResult(g) == None

\* game.rs:935: the close button's result
CancelResult(g) == Some(g.info_offset)

OffsetButtons == {"lg_sub", "lg_add", "sm_sub", "sm_add", "ti_sub", "ti_add"}

\* GameScene::tweak_offset: the cancel button, the offset buttons (live when
\* ita holds), and the save-speed button pressed after the speed slider was
\* moved
TweakOffsetUi(g, tch, ita) ==
    CASE tch.kind = "cancel" ->
           [Call(g, "button.cancel") EXCEPT !.next_scene = Some("PopWithResult"),
                                            !.pop_result = CancelResult(g)]
      [] tch.kind \in OffsetButtons ->
           IF ita
           THEN [Call(g, tch.kind) EXCEPT !.info_offset = @ + OffsetStep(tch.kind, bpm)]
           ELSE g
      [] tch.kind = "save_speed" ->
           IF SpeedChanged(g)
           THEN Call(ResetSpeedMacro([g EXCEPT !.music = NewMusic]), "button.save_speed")
           ELSE g
      [] OTHER -> g

\* GameScene::render
RenderFn(g, tch) ==
    LET a == Call(g, "chart.render")
        b == Call(RetainBadNotes(a), "effects.render")
        c == Call(PauseButton(b, tch), "ui")
        d == IF mode = "TweakOffset" THEN TweakOffsetUi(c, tch, Interactive(c)) ELSE c
    IN OverlayUi(d, tch)


\* ------------------------------------------------------------ the actions
\* The state after GameScene::new
GameNew ==
    /\ mode \in Modes
    /\ interactive \in BOOLEAN
    /\ double_click_to_pause \in BOOLEAN
    /\ offset \in Offsets
    /\ track_length \in TrackLengths \cup ShortTracks
    /\ speed \in Speeds
    /\ adjust_time \in BOOLEAN
    /\ state = "Starting"
    /\ tm = [now |-> 0, paused |-> FALSE, speed |-> SPEED_ONE, adjust_time |-> FALSE]
    /\ music = NewMusic
    /\ res_time = 0
    /\ pause_rewind = None
    /\ pause_first_time = None
    /\ exercise_range = [start |-> offset, end |-> track_length]
    /\ exercise_press = None
    /\ first_in = FALSE
    /\ should_exit = FALSE
    /\ next_scene = None
    /\ notes = <<"NotJudged">>
    /\ judge = JudgeNew
    /\ bad_notes = <<>>
    /\ disable_audio = FALSE
    /\ bpm \in Bpms
    /\ info_offset = 0
    /\ pop_result = None
    /\ closed \in BOOLEAN
    /\ autoplay \in BOOLEAN
    /\ offline_mode \in BOOLEAN
    /\ upload_fn \in BOOLEAN
    /\ player \in BOOLEAN
    /\ chart_id \in BOOLEAN
    /\ ending = None
    /\ RE_UPLOAD = FALSE
    /\ dialog = FALSE
    /\ calls = <<>>
    /\ since_tap = MaxSinceTap

\* The game scene has been made; the loading scene is gone
Init ==
    /\ pc = "new"
    /\ GameNew
    /\ ~adjust_time
    /\ track_length \in TrackLengths
    /\ loading = None
    /\ effect = None
    /\ chart = None
    /\ result = None
    /\ cfg = None
    /\ note = None
    /\ page = None
    /\ stored = None

\* GameScene::enter: at construction, and again when an overlaid ending
\* scene pops back to the game scene (the ending scene is gone by then)
EnterFn(g) ==
    LET r == ResetMacro([g EXCEPT !.music = NewMusic, !.tm.adjust_time = adjust_time]) IN
    Call([r EXCEPT !.first_in = TRUE], "enter")

Enter ==
    /\ pc \in {"new", "overlaid", "back"}
    /\ Commit([EnterFn(Cur) EXCEPT !.ending = None])
    /\ pc' = "update"
    /\ UNCHANGED <<config, since_tap, outside>>

\* a next scene is waiting to be taken by the frame loop
Pending == should_exit \/ next_scene # None

\* the wall clock advances between two frames
Tick ==
    /\ pc = "update"
    /\ ~Pending
    /\ \E dt \in Ticks :
         /\ tm' = TmAdvance(tm, dt)
         /\ music' = MusicAdvance(music, dt, track_length)
         /\ since_tap' = IF pause_first_time = None THEN MaxSinceTap
                         ELSE Min(since_tap + dt, MaxSinceTap)
    /\ UNCHANGED <<pc, config, state, res_time, pause_rewind, pause_first_time,
                   exercise_range, exercise_press, first_in, should_exit, next_scene,
                   notes, judge, bad_notes, disable_audio, info_offset, pop_result,
                   ending, calls, outside>>

Update ==
    /\ pc = "update"
    /\ ~Pending
    /\ \E k \in Keys :
         /\ k # "none" => exercise_press = None
         /\ Commit(UpdateFn(Cur, k))
    /\ pc' = "render"
    /\ UNCHANGED <<config, since_tap, outside>>

\* A frame is rendered; the player may tap a button. No button is tapped while
\* a finger drags the exercise bar, and the resume button is not tapped when
\* it would rewind below -MaxRewind.
Render ==
    /\ pc = "render"
    /\ \E tch \in Taps :
         LET g == RenderFn(Cur, tch) IN
         /\ tch.kind # "none" => exercise_press = None
         /\ tch.kind = "resume" => g.tm.now >= -MaxRewind
         /\ tch.kind \in {"cancel", "save_speed"} => mode = "TweakOffset"
         /\ Commit(g)
         /\ since_tap' = IF g.pause_first_time = None THEN MaxSinceTap
                         ELSE IF tch.kind = "pause" THEN 0 ELSE since_tap
    /\ pc' = "update"
    /\ UNCHANGED <<config, outside>>

\* A frame is rendered while one finger operates the exercise bar of the
\* pause overlay: it takes a handle, moves it, or lifts.
RenderBar ==
    /\ pc = "render"
    /\ tm.paused
    /\ \E tch \in BarTouches :
         /\ tch.kind \in {"move", "release"} <=> exercise_press # None
         /\ Commit(RenderFn(Cur, tch))
    /\ pc' = IF \E i \in DOMAIN calls' : calls'[i] = "clamp.panic"
             THEN "aborted" ELSE "update"
    /\ UNCHANGED <<config, since_tap, outside>>

\* A frame's update that finds a text returned for one of the fields of the
\* exercise bar (game.rs:1244-1248 asks for it while the game is paused)
UpdateText ==
    /\ pc = "update"
    /\ ~Pending
    /\ mode = "Exercise" /\ tm.paused /\ exercise_press = None
    /\ \E input \in Inputs : Commit(TakeInput(UpdateFn(Cur, "none"), input))
    /\ pc' = "render"
    /\ UNCHANGED <<config, since_tap, outside>>

\* A frame of offset-tweak mode is rendered; the player may tap one of the six
\* offset buttons, the close button, or the overlay's back button
OffsetTaps == {[kind |-> k, p |-> 0] : k \in OffsetButtons \cup {"none", "cancel", "back"}}

RenderOffset ==
    /\ pc = "render"
    /\ mode = "TweakOffset"
    /\ exercise_press = None
    /\ \E tch \in OffsetTaps :
         LET g == RenderFn(Cur, tch) IN
         /\ g.info_offset \in InfoOffsets
         /\ Commit(g)
    /\ pc' = "update"
    /\ UNCHANGED <<config, since_tap, outside>>

\* GameScene::pause: the application goes to the background
ScenePauseFn(g) ==
    IF ~g.tm.paused
    THEN [g EXCEPT !.pause_rewind = None, !.music = MusicPause(@), !.tm = TmPause(@)]
    ELSE g

ScenePause ==
    /\ pc = "update"
    /\ ~Pending
    /\ exercise_press = None
    /\ Commit([ScenePauseFn(Cur) EXCEPT !.calls = calls])
    /\ pc' = "background"
    /\ UNCHANGED <<config, since_tap, outside>>

\* GameScene::resume: the application comes back
SceneResumeFn(g) ==
    IF g.state # "Playing" THEN [g EXCEPT !.tm = TmResume(@)] ELSE g

SceneResume ==
    /\ pc = "background"
    /\ Commit([SceneResumeFn(Cur) EXCEPT !.calls = calls])
    /\ pc' = "update"
    /\ UNCHANGED <<config, since_tap, outside>>

\* game.rs:1451-1469: GameScene::next_scene
NextSceneFn(g) ==
    IF g.should_exit
    THEN [g EXCEPT !.tm = [(IF @.paused THEN TmResume(@) ELSE @) EXCEPT
                              !.speed = SPEED_ONE, !.adjust_time = FALSE],
                   !.pop_result = None]
    ELSE IF g.next_scene # None
         THEN [g EXCEPT !.next_scene = None, !.tm.speed = SPEED_ONE,
                        !.tm.adjust_time = FALSE]
         ELSE g

NextSceneResult(g) ==
    IF g.should_exit
    THEN IF mode = "TweakOffset" THEN "PopWithResult" ELSE "Pop"
    ELSE g.next_scene[1]

NextScene ==
    /\ pc = "update"
    /\ Pending
    /\ Commit(Call(NextSceneFn(Cur), NextSceneResult(Cur)))
    /\ pc' = IF NextSceneResult(Cur) = "Overlay" THEN "overlaid" ELSE "popped"
    /\ UNCHANGED <<config, since_tap, outside>>

Next ==
    \/ Enter
    \/ Tick
    \/ Update
    \/ Render
    \/ ScenePause
    \/ SceneResume
    \/ NextScene

\* The next-state relation with the exercise bar in use
NextBar == Next \/ RenderBar

\* Scenes whose pause button takes a single tap; every mode, offset and
\* interactivity
\* A run at normal speed, played by the player, with nothing to upload to
PlainRun ==
    /\ bpm = DefaultBpm
    /\ ~adjust_time
    /\ track_length \in TrackLengths
    /\ ~closed /\ ~autoplay /\ speed = 1000 /\ ~offline_mode
    /\ ~upload_fn /\ ~player /\ ~chart_id

InitSingleTap == Init /\ ~double_click_to_pause /\ PlainRun
Spec == InitSingleTap /\ [][Next]_vars

\* An interactive Normal-mode scene, with and without double-tap pausing
InitTap == Init /\ mode = "Normal" /\ interactive /\ offset = 0 /\ PlainRun
SpecTap == InitTap /\ [][Next]_vars

\* An interactive Exercise-mode scene whose exercise bar is operated
InitBar ==
    /\ Init
    /\ mode = "Exercise" /\ interactive /\ ~double_click_to_pause /\ offset = -50
    /\ PlainRun
SpecBar == InitBar /\ [][NextBar]_vars

\* Exercise runs whose total offset is 0.5 s, on a track of 4 s and on one of
\* 3.2 s, with the bar dragged and its two fields typed into. The scenes are
\* not interactive: the run loops over the range and has no button that
\* leaves it, so next_scene never has a scene to return.
NextRange ==
    \/ Enter
    \/ Tick
    \/ Update
    \/ Render
    \/ ScenePause
    \/ SceneResume
    \/ RenderBar
    \/ UpdateText
InitRange ==
    /\ pc = "new"
    /\ GameNew
    /\ mode = "Exercise" /\ ~interactive /\ ~double_click_to_pause /\ offset = 50
    /\ bpm = DefaultBpm /\ ~adjust_time
    /\ ~closed /\ ~autoplay /\ speed = 1000 /\ ~offline_mode
    /\ ~upload_fn /\ ~player /\ ~chart_id
    /\ loading = None
    /\ effect = None
    /\ chart = None
    /\ result = None
    /\ cfg = None
    /\ note = None
    /\ page = None
    /\ stored = None
SpecRange == InitRange /\ [][NextRange]_vars

\* Runs at speed 0.999 with and without config.adjust_time, in every mode
InitLeave ==
    /\ pc = "new"
    /\ GameNew
    /\ ~double_click_to_pause /\ offset = 0 /\ bpm = DefaultBpm
    /\ track_length \in TrackLengths
    /\ ~closed /\ ~autoplay /\ speed = 999 /\ ~offline_mode
    /\ ~upload_fn /\ ~player /\ ~chart_id
    /\ loading = None
    /\ effect = None
    /\ chart = None
    /\ result = None
    /\ cfg = None
    /\ note = None
    /\ page = None
    /\ stored = None
SpecLeave == InitLeave /\ [][Next]_vars

\* game.rs:795: the slider of the paused Exercise overlay; game.rs:990: the
\* slider of the tweak page. Its touch is the frame's touch: no button is hit
SliderShown(g) == (mode = "Exercise" /\ g.tm.paused) \/ mode = "TweakOffset"

\* A frame is rendered in which the player moves the speed slider
RenderSlider ==
    /\ pc = "render"
    /\ exercise_press = None
    /\ SliderShown(Cur)
    /\ \E v \in SliderSpeeds \ {speed} : speed' = v
    /\ LET g == RenderFn(Cur, [kind |-> "none", p |-> 0]) IN
         /\ Commit(g)
         /\ since_tap' = IF g.pause_first_time = None THEN MaxSinceTap ELSE since_tap
    /\ pc' = "update"
    /\ UNCHANGED <<mode, interactive, double_click_to_pause, offset, track_length, bpm,
                   closed, autoplay, offline_mode, adjust_time, upload_fn, player, chart_id, outside>>

\* An interactive Exercise or offset-tweak scene whose speed slider is operated
NextSpeed == Next \/ RenderSlider
InitSpeed ==
    /\ Init
    /\ mode \in {"Exercise", "TweakOffset"}
    /\ interactive /\ ~double_click_to_pause /\ offset = 0
    /\ PlainRun
SpecSpeed == InitSpeed /\ [][NextSpeed]_vars

\* ------------------------------------------------------- the ending scene
\* what the ending scene's handlers leave alone of the game scene
game_rest == <<state, music, res_time, pause_rewind, pause_first_time,
               exercise_range, exercise_press, first_in, should_exit, next_scene,
               notes, judge, bad_notes, disable_audio, info_offset>>

\* ending.rs:144-149: EndingScene::enter, with the render target Main passes
EndingEnterFn(e, target) == [e EXCEPT !.target = target]

EndingEnter ==
    /\ pc = "overlaid"
    /\ ending # None
    /\ \E target \in {None, Some("target")} :
         ending' = Some(EndingEnterFn(ending[1], target))
    /\ tm' = TmSeekTo(TmReset(tm), ENDING_START)
    /\ pc' = "e_touch"
    /\ calls' = <<"ending.enter">>
    /\ UNCHANGED <<config, game_rest, pop_result, since_tap, outside>>

\* the wall clock advances between two frames of the ending scene
EndingTick ==
    /\ pc = "e_touch"
    /\ \E dt \in Ticks : tm' = TmAdvance(tm, dt)
    /\ UNCHANGED <<pc, config, game_rest, pop_result, ending, calls, since_tap, outside>>

\* ending.rs:151-155: EndingScene::pause
EndingPause ==
    /\ pc = "e_touch"
    /\ ending' = Some([ending[1] EXCEPT !.bgm = MusicPause(@)])
    /\ tm' = TmPause(tm)
    /\ pc' = "e_background"
    /\ UNCHANGED <<config, game_rest, pop_result, calls, since_tap, outside>>

\* ending.rs:157-161: EndingScene::resume
EndingResume ==
    /\ pc = "e_background"
    /\ ending' = Some([ending[1] EXCEPT !.bgm = MusicPlay(@)])
    /\ tm' = TmResume(tm)
    /\ pc' = "e_touch"
    /\ UNCHANGED <<config, game_rest, pop_result, calls, since_tap, outside>>

\* a tap that sets next whether or not an upload is running
EndingTouchAnyway(e, tap) ==
    CASE tap = "retry" -> [e EXCEPT !.next = 1]
      [] tap = "proceed" -> [e EXCEPT !.next = 2]
      [] OTHER -> e

\* ending.rs:163-181: EndingScene::touch
EndingTouchFn(e, tap) ==
    CASE tap = "retry" -> IF e.upload_task # None THEN e ELSE [e EXCEPT !.next = 1]
      [] tap = "proceed" -> IF e.upload_task # None THEN e ELSE [e EXCEPT !.next = 2]
      [] OTHER -> e

\* the frame's touch: nothing, or a tap on the retry or the proceed button
EndingTouch ==
    /\ pc = "e_touch"
    /\ \E tap \in {"none", "retry", "proceed"} :
         /\ ending' = Some(EndingTouchFn(ending[1], tap))
         /\ calls' = <<"touch", tap>>
    /\ pc' = "e_update"
    /\ UNCHANGED <<config, game_rest, tm, pop_result, since_tap, outside>>

\* ending.rs:200-207: the frame's touch answers the upload-failed dialog
EndingDialog ==
    /\ pc = "e_touch"
    /\ dialog
    /\ \E pos \in {0, 1} :
         /\ RE_UPLOAD' = IF pos = 1 THEN TRUE ELSE RE_UPLOAD
         /\ calls' = <<"dialog", IF pos = 1 THEN "upload-retry" ELSE "upload-cancel">>
    /\ dialog' = FALSE
    /\ pc' = "e_update"
    /\ UNCHANGED <<config, game_rest, tm, pop_result, ending, since_tap, others>>

\* ending.rs:188-193: the upload is started again when RE_UPLOAD was set and
\* no task is there
Reupload(e, flag) == flag /\ e.upload_task = None /\ e.record_data # None

\* an update that starts an upload whenever no task is there
EndingUpdateNoFlag(e, now, flag, outcome) ==
    LET a == IF now >= BPM_WAIT_TIME - offset /\ e.target = None /\ e.bgm.paused
             THEN [e EXCEPT !.bgm = MusicPlay(@)] ELSE e
        b == IF Reupload(a, TRUE)
             THEN [a EXCEPT !.upload_task = Some(UploadFn(a.record_data[1]))]
             ELSE a
    IN IF b.upload_task = None \/ outcome = "pending" THEN b
       ELSE IF outcome = "ok"
            THEN [b EXCEPT !.update_state = Some("uploaded"), !.upload_task = None]
            ELSE [b EXCEPT !.upload_task = None]

\* ending.rs:183-217: EndingScene::update; outcome is what the upload task
\* has to give when it is polled
EndingUpdateFn(e, now, flag, outcome) ==
    LET a == IF now >= BPM_WAIT_TIME - offset /\ e.target = None /\ e.bgm.paused
             THEN [e EXCEPT !.bgm = MusicPlay(@)] ELSE e
        b == IF Reupload(a, flag)
             THEN [a EXCEPT !.upload_task = Some(UploadFn(a.record_data[1]))]
             ELSE a
    IN IF b.upload_task = None \/ outcome = "pending" THEN b
       ELSE IF outcome = "ok"
            THEN [b EXCEPT !.update_state = Some("uploaded"), !.upload_task = None]
            ELSE [b EXCEPT !.upload_task = None]

EndingUpdate ==
    /\ pc = "e_update"
    /\ \E outcome \in {"pending", "ok", "err"} :
         LET e == EndingUpdateFn(ending[1], tm.now, RE_UPLOAD, outcome)
             polled == IF RE_UPLOAD /\ ending[1].upload_task = None
                       THEN ending[1].record_data ELSE ending[1].upload_task
         IN /\ ending' = Some(e)
            /\ dialog' = IF polled # None /\ outcome = "err" THEN TRUE ELSE dialog
            /\ calls' = <<"ending.update">>
                           \o (IF Reupload(ending[1], RE_UPLOAD)
                               THEN <<"upload_fn">> ELSE <<>>)
                           \o (IF polled # None /\ outcome = "ok"
                               THEN <<"upload-ok">> ELSE <<>>)
                           \o (IF polled # None /\ outcome = "err"
                               THEN <<"upload-err">> ELSE <<>>)
    /\ RE_UPLOAD' = FALSE
    /\ pc' = "e_next"
    /\ UNCHANGED <<config, game_rest, tm, pop_result, since_tap, others>>

\* ending.rs:529-545: EndingScene::next_scene
EndingNextSceneFn(e) == IF e.next # 0 THEN [e EXCEPT !.bgm = MusicPause(@)] ELSE e

EndingNextSceneResult(e) ==
    CASE e.next = 0 -> "None"
      [] e.next = 1 -> "Pop"
      [] OTHER -> IF e.record # None THEN "PopNWithResult" ELSE "PopN"

EndingNextScene ==
    /\ pc = "e_next"
    /\ ending' = Some(EndingNextSceneFn(ending[1]))
    /\ calls' = <<EndingNextSceneResult(ending[1])>>
    /\ pop_result' = IF ending[1].next = 2 THEN ending[1].record ELSE pop_result
    /\ pc' = CASE ending[1].next = 0 -> "e_touch"
                [] ending[1].next = 1 -> "back"
                [] OTHER -> "popped"
    /\ UNCHANGED <<config, game_rest, tm, since_tap, outside>>

\* GameScene::enter at construction and after the ending scene has popped
EnterGame == pc # "overlaid" /\ Enter

\* A Normal or TweakOffset run that is not interactive, for every build, player
\* and upload setting, followed by its ending scene
NextEnding ==
    \/ EnterGame
    \/ Tick
    \/ Update
    \/ Render
    \/ NextScene
    \/ EndingEnter
    \/ EndingTick
    \/ EndingPause
    \/ EndingResume
    \/ EndingTouch
    \/ EndingDialog
    \/ EndingUpdate
    \/ EndingNextScene
InitEnding ==
    /\ Init
    /\ mode \in {"Normal", "TweakOffset"}
    /\ ~interactive /\ ~double_click_to_pause /\ offset = 0 /\ bpm = DefaultBpm
SpecEnding == InitEnding /\ [][NextEnding]_vars

\* ------------------------------------------------------ the loading scene
\* loading.rs:100-110: LoadingScene::new; finish_time None is f32::INFINITY,
\* load_result is what the load future gives once it has completed
LoadingSceneNew ==
    [load_task |-> Some("future"), load_result |-> None, next_scene |-> None,
     finish_time |-> None, target |-> None]

\* loading.rs:121-142: LoadingScene::update; outcome is what a poll of the
\* load future gives
LoadingUpdateFn(l, now, outcome) ==
    IF l.load_task = None \/ outcome = "pending" THEN l
    ELSE [l EXCEPT !.load_task = None,
                   !.load_result = Some(outcome),
                   !.next_scene = IF outcome = "err" THEN Some("PopWithResult")
                                  ELSE Some("Replace"),
                   !.finish_time = Some(now + BEFORE_TIME)]

\* an error that waits for the transition like a loaded scene
PopsLikeReplace(ns) == FALSE

\* loading.rs:254: a PopWithResult is returned at once
PopsAtOnce(ns) == ns = Some("PopWithResult")

\* a transition that is over at finish_time + TRANSITION_TIME already
TransitionOverAtBound(now, ft) ==
    ft # None /\ now >= ft[1] + TRANSITION_TIME + LOADING_WAIT_TIME

\* loading.rs:257: the transition is over
TransitionOver(now, ft) ==
    ft # None /\ now > ft[1] + TRANSITION_TIME + LOADING_WAIT_TIME

\* loading.rs:253-263: LoadingScene::next_scene
LoadingNextSceneResult(l, now) ==
    IF PopsAtOnce(l.next_scene) THEN "PopWithResult"
    ELSE IF TransitionOver(now, l.finish_time) /\ l.next_scene # None
         THEN l.next_scene[1]
         ELSE "None"

LoadingNextSceneFn(l, now) ==
    IF LoadingNextSceneResult(l, now) = "None" THEN l ELSE [l EXCEPT !.next_scene = None]

\* loading.rs:116-119: LoadingScene::enter, with the render target Main passes
LoadingEnter ==
    /\ pc = "l_new"
    /\ \E target \in {None, Some("target")} :
         loading' = Some([loading[1] EXCEPT !.target = target])
    /\ pc' = "l_update"
    /\ calls' = <<"loading.enter">>
    /\ UNCHANGED <<config, scene, since_tap, RE_UPLOAD, dialog, effect, chart, result, cfg, note, page, stored>>

\* the wall clock advances between two frames of the loading scene; the two
\* steps let a frame fall on finish_time + TRANSITION_TIME exactly
LoadingTicks == {40, 50}

LoadingTick ==
    /\ pc = "l_update"
    /\ \E dt \in LoadingTicks : tm' = TmAdvance(tm, dt)
    /\ UNCHANGED <<pc, config, game_rest, pop_result, ending, calls, since_tap, outside>>

\* A poll of the load future gives nothing yet, a game scene, or an error;
\* with a render target the update polls until the future has completed.
LoadingUpdate ==
    /\ pc = "l_update"
    /\ \E outcome \in {"pending", "ok", "err"} :
         /\ (outcome = "pending" /\ loading[1].load_task # None) => loading[1].target = None
         /\ loading' = Some(LoadingUpdateFn(loading[1], tm.now, outcome))
    /\ pc' = "l_next"
    /\ calls' = <<"loading.update">>
    /\ UNCHANGED <<config, scene, since_tap, RE_UPLOAD, dialog, effect, chart, result, cfg, note, page, stored>>

\* LoadingScene::next_scene: None keeps the scene, Replace puts the game scene
\* in its place, PopWithResult hands the error back
LoadingNextScene ==
    /\ pc = "l_next"
    /\ loading' = Some(LoadingNextSceneFn(loading[1], tm.now))
    /\ calls' = <<LoadingNextSceneResult(loading[1], tm.now)>>
    /\ pc' = CASE LoadingNextSceneResult(loading[1], tm.now) = "None" -> "l_update"
                [] LoadingNextSceneResult(loading[1], tm.now) = "Replace" -> "new"
                [] OTHER -> "popped"
    /\ UNCHANGED <<config, scene, since_tap, RE_UPLOAD, dialog, effect, chart, result, cfg, note, page, stored>>

\* A loading scene from its construction until it hands over or pops
NextLoading ==
    \/ LoadingEnter
    \/ LoadingTick
    \/ LoadingUpdate
    \/ LoadingNextScene
InitLoading ==
    /\ pc = "l_new"
    /\ GameNew
    /\ mode = "Normal" /\ interactive /\ ~double_click_to_pause /\ offset = 0
    /\ PlainRun
    /\ loading = Some(LoadingSceneNew)
    /\ effect = None
    /\ chart = None
    /\ result = None
    /\ cfg = None
    /\ note = None
    /\ page = None
    /\ stored = None
SpecLoading == InitLoading /\ [][NextLoading]_vars

\* -------------------------------------------------------------- an effect
\* A default the shader declares, `uniform <type_name> <name>; // %<value>%`:
\* the value is ncomp comma-separated parts, which all parse as f32 or not
ShaderDefaults ==
    {[type_name |-> ty, name |-> n, ncomp |-> c, numeric |-> b] :
        ty \in {"float", "vec2", "vec4", "int"}, n \in {"power", "time"},
        c \in 1..4, b \in BOOLEAN}
\* A uniform the chart supplies
ChartUniforms ==
    {[name |-> n, type |-> ty] :
        n \in {"power", "time", "screenSize", "color"},
        ty \in {"Float1", "Float2", "Float4"}}
\* the shaders and uniform lists an effect is made with: at most one of each
Shaders == {<<>>} \cup {<<d>> : d \in ShaderDefaults}
UniformLists == {<<>>} \cup {<<u>> : u \in ChartUniforms}
TimeRanges == {[start |-> 100, end |-> 300]}
EffectTimes == {0, 100, 200, 300}

\* effect.rs:131-146: the uniform type of a default, "err" when its parse fails
DefaultType(d) ==
    CASE d.type_name = "float" -> IF d.ncomp = 1 /\ d.numeric THEN "Float1" ELSE "err"
      [] d.type_name = "vec2" -> IF d.ncomp = 2 /\ d.numeric THEN "Float2" ELSE "err"
      [] d.type_name = "vec4" -> IF d.ncomp = 4 /\ d.numeric THEN "Float4" ELSE "err"
      [] OTHER -> "err"

\* effect.rs:149-155: add_uniform keeps the first pair of a name
AddUniform(list, pair) ==
    IF \E i \in DOMAIN list : list[i].name = pair.name THEN list ELSE Append(list, pair)

RECURSIVE AddUniforms(_, _)
AddUniforms(list, pairs) ==
    IF pairs = <<>> THEN list
    ELSE AddUniforms(AddUniform(list, Head(pairs)), Tail(pairs))

\* effect.rs:156-164: the uniforms the material is loaded with
NewUniforms(defaults, uniforms) ==
    AddUniforms(<<>>,
        [i \in DOMAIN defaults |-> [name |-> defaults[i].name, type |-> DefaultType(defaults[i])]]
        \o <<[name |-> "time", type |-> "Float1"],
             [name |-> "screenSize", type |-> "Float2"],
             [name |-> "UVScale", type |-> "Float2"]>>
        \o uniforms)

\* a range that takes its end in
ContainsEnd(r, t) == r.start <= t /\ t <= r.end

\* Range::contains: start inclusive, end exclusive
Contains(r, t) == r.start <= t /\ t < r.end

\* effect.rs:123-180: Effect::new; None when it returns an error. anim_t is
\* the time of the animated uniforms, None while none was set
EffectNewFn(time_range, shader, uniforms) ==
    IF \E i \in DOMAIN shader : DefaultType(shader[i]) = "err" THEN None
    ELSE Some([time_range |-> time_range, t |-> NEG_INFINITY,
               defaults |-> shader, uniforms |-> uniforms,
               material |-> NewUniforms(shader, uniforms),
               anim_t |-> None, drew |-> FALSE])

\* effect.rs:182-190: Effect::update
EffectUpdateFn(e, time) ==
    IF Contains(e.time_range, time)
    THEN [e EXCEPT !.t = time, !.anim_t = Some(time)]
    ELSE [e EXCEPT !.t = time]

\* effect.rs:192-217: Effect::render; drew tells whether it drew
EffectRenderFn(e) == [e EXCEPT !.drew = Contains(e.time_range, e.t)]

EffectNew ==
    /\ pc = "fx_new"
    /\ \E r \in TimeRanges, sh \in Shaders, us \in UniformLists :
         /\ effect' = EffectNewFn(r, sh, us)
         /\ calls' = <<"effect.new", sh, us>>
         /\ pc' = IF EffectNewFn(r, sh, us) = None THEN "fx_failed" ELSE "fx_update"
    /\ UNCHANGED <<config, scene, since_tap, RE_UPLOAD, dialog, loading, chart, result, cfg, note, page, stored>>

EffectUpdate ==
    /\ pc \in {"fx_update", "fx_render"}
    /\ \E time \in EffectTimes : effect' = Some(EffectUpdateFn(effect[1], time))
    /\ calls' = <<"effect.update">>
    /\ pc' = "fx_render"
    /\ UNCHANGED <<config, scene, since_tap, RE_UPLOAD, dialog, loading, chart, result, cfg, note, page, stored>>

EffectRender ==
    /\ pc \in {"fx_update", "fx_render"}
    /\ effect' = Some(EffectRenderFn(effect[1]))
    /\ calls' = <<"effect.render">>
    /\ pc' = "fx_update"
    /\ UNCHANGED <<config, scene, since_tap, RE_UPLOAD, dialog, loading, chart, result, cfg, note, page, stored>>

\* An effect is made, then updated and rendered in any order
NextEffect ==
    \/ EffectNew
    \/ EffectUpdate
    \/ EffectRender
InitEffect ==
    /\ pc = "fx_new"
    /\ GameNew
    /\ mode = "Normal" /\ interactive /\ ~double_click_to_pause /\ offset = 0
    /\ PlainRun
    /\ loading = None
    /\ effect = None
    /\ chart = None
    /\ result = None
    /\ cfg = None
    /\ note = None
    /\ page = None
    /\ stored = None
SpecEffect == InitEffect /\ [][NextEffect]_vars

\* --------------------------------------------------------------- a chart
MaxLines == 3
\* a judge line as Chart::new reads it
JudgeLines ==
    {[z_index |-> z, attach_ui |-> a] :
        z \in {0, 1}, a \in {None, Some(1), Some(UI_SLOTS)}}
RECURSIVE SeqsUpTo(_, _)
SeqsUpTo(S, n) ==
    IF n = 0 THEN {<<>>}
    ELSE LET shorter == SeqsUpTo(S, n - 1) IN
         shorter \cup {Append(q, x) : q \in {r \in shorter : Len(r) = n - 1}, x \in S}
LineLists == SeqsUpTo(JudgeLines, MaxLines)
\* the effects a chart comes with: none or one, over two ranges
ChartRanges == {[start |-> 100, end |-> 300], [start |-> 200, end |-> 300]}
EffectLists == {<<>>} \cup {<<EffectNewFn(r, <<>>, <<>>)[1]>> : r \in ChartRanges}

\* chart.rs:39-48: the filter keeps the lines without attach_ui, in index order
RECURSIVE Unattached(_, _)
Unattached(lines, i) ==
    IF i > Len(lines) THEN <<>>
    ELSE IF lines[i].attach_ui # None THEN Unattached(lines, i + 1)
    ELSE <<i>> \o Unattached(lines, i + 1)

\* chart.rs:41-42: a later line of a slot overwrites an earlier one
RECURSIVE AttachUi(_, _, _)
AttachUi(lines, i, acc) ==
    IF i > Len(lines) THEN acc
    ELSE IF lines[i].attach_ui # None
         THEN AttachUi(lines, i + 1, [acc EXCEPT ![lines[i].attach_ui[1]] = Some(i)])
         ELSE AttachUi(lines, i + 1, acc)

\* chart.rs:49: the sort key
Key(lines, i) == <<lines[i].z_index, i>>

\* an order that ignores z_index
KeyLessByIndex(a, b) == a[2] < b[2]

\* the order of the keys, which are pairs
KeyLess(a, b) == a[1] < b[1] \/ (a[1] = b[1] /\ a[2] < b[2])

\* chart.rs:49: sort_by_key, a stable sort: an element goes behind the last
\* element whose key is not greater
RECURSIVE InsertByKey(_, _, _)
InsertByKey(lines, sorted, i) ==
    IF sorted = <<>> THEN <<i>>
    ELSE LET last == sorted[Len(sorted)] IN
         IF KeyLess(Key(lines, i), Key(lines, last))
         THEN Append(InsertByKey(lines, SubSeq(sorted, 1, Len(sorted) - 1), i), last)
         ELSE Append(sorted, i)

RECURSIVE SortByKey(_, _)
SortByKey(lines, order) ==
    IF order = <<>> THEN <<>>
    ELSE InsertByKey(lines, SortByKey(lines, SubSeq(order, 1, Len(order) - 1)),
                     order[Len(order)])

\* chart.rs:37-61: Chart::new, with the fields GameScene::new adds to it
ChartNew(lines, effects) ==
    [lines |-> lines,
     order |-> SortByKey(lines, Unattached(lines, 1)),
     attach_ui |-> AttachUi(lines, 1, [slot \in 1..UI_SLOTS |-> None]),
     effects |-> effects,
     global_effects |-> <<>>,
     no_effect |-> TRUE,
     passes |-> <<>>,
     global_passes |-> <<>>]

\* game.rs:360-378: GameScene::new takes the global effects out of the chart,
\* appends the fxaa effect and derives no_effect
FxaaEffect == EffectNewFn([start |-> 0, end |-> INFINITY], <<>>, <<>>)[1]
GameSceneEffects(c, global_effects, fxaa) ==
    LET effects == IF fxaa THEN Append(c.effects, FxaaEffect) ELSE c.effects IN
    [c EXCEPT !.effects = effects,
              !.global_effects = global_effects,
              !.no_effect = (effects = <<>> /\ global_effects = <<>>),
              !.passes = [i \in DOMAIN effects |-> 0],
              !.global_passes = [i \in DOMAIN global_effects |-> 0]]

\* chart.rs:130-132 and game.rs:1201-1203: every effect of both lists is updated
EffectsUpdateFn(c, time) ==
    [c EXCEPT !.effects = [i \in DOMAIN c.effects |-> EffectUpdateFn(c.effects[i], time)],
              !.global_effects =
                  [i \in DOMAIN c.global_effects |-> EffectUpdateFn(c.global_effects[i], time)]]

\* one loop `for effect in list { effect.render(res) }`: an effect that draws
\* makes one swap-and-draw pass
RenderAll(list, passes) ==
    [i \in DOMAIN list |-> passes[i] + (IF EffectRenderFn(list[i]).drew THEN 1 ELSE 0)]

\* chart.rs:160-172: Chart::render renders the chart's effects
ChartRenderEffects(c) ==
    IF ~c.no_effect THEN [c EXCEPT !.passes = RenderAll(c.effects, c.passes)] ELSE c

\* game.rs:1338-1382: the effect passes of GameScene::render, counted from 0
GameRenderEffects(c) ==
    LET c0 == [c EXCEPT !.passes = [i \in DOMAIN c.effects |-> 0],
                        !.global_passes = [i \in DOMAIN c.global_effects |-> 0]]
        c1 == ChartRenderEffects(c0)
        c2 == IF ~c1.no_effect
              THEN [c1 EXCEPT !.passes = RenderAll(c1.effects, c1.passes)] ELSE c1
        c3 == IF ~c2.no_effect /\ c2.global_effects # <<>>
              THEN [c2 EXCEPT !.global_passes = RenderAll(c2.global_effects, c2.global_passes)]
              ELSE c2
    IN c3

\* Chart::new on any list of lines
ChartNewLines ==
    /\ pc = "ch_new"
    /\ \E lines \in LineLists : chart' = Some(ChartNew(lines, <<>>))
    /\ calls' = <<"chart.new">>
    /\ pc' = "ch_made"
    /\ UNCHANGED <<config, scene, since_tap, RE_UPLOAD, dialog, loading, effect, result, cfg, note, page, stored>>
InitChart ==
    /\ pc = "ch_new"
    /\ GameNew
    /\ mode = "Normal" /\ interactive /\ ~double_click_to_pause /\ offset = 0
    /\ PlainRun
    /\ loading = None
    /\ effect = None
    /\ chart = None
    /\ result = None
    /\ cfg = None
    /\ note = None
    /\ page = None
    /\ stored = None
NextChart == ChartNewLines
SpecChart == InitChart /\ [][NextChart]_vars

\* GameScene::new on a chart with effects
GameSceneNewEffects ==
    /\ pc = "ch_new"
    /\ \E effects \in EffectLists, global_effects \in EffectLists, fxaa \in BOOLEAN :
         chart' = Some(GameSceneEffects(ChartNew(<<>>, effects), global_effects, fxaa))
    /\ calls' = <<"game.new">>
    /\ pc' = "ch_frame"
    /\ UNCHANGED <<config, scene, since_tap, RE_UPLOAD, dialog, loading, effect, result, cfg, note, page, stored>>

EffectsUpdate ==
    /\ pc = "ch_frame"
    /\ \E time \in EffectTimes : chart' = Some(EffectsUpdateFn(chart[1], time))
    /\ calls' = <<"update">>
    /\ UNCHANGED <<pc, config, scene, since_tap, RE_UPLOAD, dialog, loading, effect, result, cfg, note, page, stored>>

EffectsRender ==
    /\ pc = "ch_frame"
    /\ chart' = Some(GameRenderEffects(chart[1]))
    /\ calls' = <<"render">>
    /\ UNCHANGED <<pc, config, scene, since_tap, RE_UPLOAD, dialog, loading, effect, result, cfg, note, page, stored>>

NextPasses ==
    \/ GameSceneNewEffects
    \/ EffectsUpdate
    \/ EffectsRender
SpecPasses == InitChart /\ [][NextPasses]_vars

\* ----------------------------------------------------------- the tallies
MaxNotes == 4
Judgements == {"perfect", "good", "bad", "miss"}
\* round(x / n) for x >= 0, n > 0
RoundDiv(x, n) == (2 * x + n) \div (2 * n)

\* a run's tallies before the first judgement
TallyNew(n) ==
    [num_of_notes |-> n, perfects |-> 0, goods |-> 0, bads |-> 0, misses |-> 0,
     combo |-> 0, max_combo |-> 0, score |-> None]

\* one judgement: the count goes up; the combo resets on bad and miss and
\* goes up otherwise
Commit1(r, what) ==
    LET combo == IF what \in {"bad", "miss"} THEN 0 ELSE r.combo + 1 IN
    [r EXCEPT !.perfects = @ + (IF what = "perfect" THEN 1 ELSE 0),
              !.goods = @ + (IF what = "good" THEN 1 ELSE 0),
              !.bads = @ + (IF what = "bad" THEN 1 ELSE 0),
              !.misses = @ + (IF what = "miss" THEN 1 ELSE 0),
              !.combo = combo,
              !.max_combo = Max(@, combo)]

\* a score without the bonus
ScoreNoBonus(r) ==
    RoundDiv(900000 * r.perfects + 585000 * r.goods + 100000 * r.max_combo,
             r.num_of_notes)

\* score = round(1_000_000 x (0.9 x (perfects + 0.65 x goods)/N + 0.1 x max_combo/N)),
\* plus the bonus when perfects = N
Score(r) ==
    RoundDiv(900000 * r.perfects + 585000 * r.goods + 100000 * r.max_combo,
             r.num_of_notes)
      + (IF r.perfects = r.num_of_notes THEN BONUS ELSE 0)

Judged(r) == r.perfects + r.goods + r.bads + r.misses

\* a note is judged
JudgeCommit ==
    /\ pc = "j_play"
    /\ Judged(result[1]) < result[1].num_of_notes
    /\ \E what \in Judgements : result' = Some(Commit1(result[1], what))
    /\ calls' = <<"judge.commit">>
    /\ UNCHANGED <<pc, config, scene, since_tap, RE_UPLOAD, dialog, loading, effect, chart, cfg, note, page, stored>>

\* game.rs:1099: the result is taken when the run is over
JudgeResult ==
    /\ pc = "j_play"
    /\ Judged(result[1]) = result[1].num_of_notes
    /\ result' = Some([result[1] EXCEPT !.score = Some(Score(result[1]))])
    /\ calls' = <<"judge.result">>
    /\ pc' = "j_done"
    /\ UNCHANGED <<config, scene, since_tap, RE_UPLOAD, dialog, loading, effect, chart, cfg, note, page, stored>>

NextScore ==
    \/ JudgeCommit
    \/ JudgeResult
InitScore ==
    /\ pc = "j_play"
    /\ GameNew
    /\ mode = "Normal" /\ interactive /\ ~double_click_to_pause /\ offset = 0
    /\ PlainRun
    /\ loading = None
    /\ effect = None
    /\ chart = None
    /\ cfg = None
    /\ note = None
    /\ page = None
    /\ stored = None
    /\ \E n \in 1..MaxNotes : result = Some(TallyNew(n))
SpecScore == InitScore /\ [][NextScore]_vars

\* -------------------------------------------------------------- a config
\* bitflags: Mods::contains, insert, remove, set for a single bit
Contains1(mods, bit) == (mods \div bit) % 2 = 1
Insert(mods, bit) == IF Contains1(mods, bit) THEN mods ELSE mods + bit
Remove(mods, bit) == IF Contains1(mods, bit) THEN mods - bit ELSE mods
SetBit(mods, bit, flag) == IF flag THEN Insert(mods, bit) ELSE Remove(mods, bit)
ModsValues == 0..(AUTOPLAY + FLIP_X + FADE_OUT)

\* an init that only ever turns the mod on
ConfigInitOnOnly(c) ==
    IF c.autoplay # None /\ c.autoplay[1] THEN [c EXCEPT !.mods = Insert(@, AUTOPLAY)] ELSE c

\* config.rs:161-165: Config::init
ConfigInit(c) ==
    IF c.autoplay # None THEN [c EXCEPT !.mods = SetBit(@, AUTOPLAY, c.autoplay[1])] ELSE c

\* game.rs:350-358: the mods GameScene::new runs with
ModsOfMode(m, c) ==
    CASE m = "TweakOffset" -> [c EXCEPT !.mods = Insert(@, AUTOPLAY)]
      [] m = "Exercise" -> [c EXCEPT !.mods = Remove(@, AUTOPLAY)]
      [] OTHER -> c

\* config.rs:173-175: Config::autoplay
ConfigAutoplay(c) == Contains1(c.mods, AUTOPLAY)

\* ---- the combo text
\* Characters, by what the two patterns of validate_value make of them:
\* Latin capitals, their look-alikes (Cyrillic Es, Armenian Oh, Greek Omicron,
\* Mu and Beta: two bytes each in UTF-8), digits, a lowercase letter, a hyphen,
\* and two characters outside the allowed class: the space and an accented
\* letter (two bytes)
LatinChars == {"C", "O", "M", "B", "0", "8", "o", "-"}
LookAlikes == {"Cyr_Es", "Arm_Oh", "Gr_Omicron", "Gr_Mu", "Gr_Beta"}
OtherChars == {" ", "e_acute"}
TextBytes == [c \in LatinChars \cup LookAlikes \cup OtherChars |->
                 IF c \in LookAlikes \cup {"e_acute"} THEN 2 ELSE 1]
COMBO_MAX_LEN == 50

\* String::len, in bytes
RECURSIVE StrLen(_)
StrLen(text) == IF text = <<>> THEN 0 ELSE TextBytes[Head(text)] + StrLen(Tail(text))

\* game.rs:444-445: the characters outside the class are removed (the class
\* holds no white space, so the trim that follows removes nothing)
IsAllowed(c) == c \in LatinChars \cup LookAlikes
ReFilter(text) == SelectSeq(text, IsAllowed)

\* game.rs:447: ^[CС][OՕΟ0][MΜ][BΒ8][OՕΟ0]$
ComboPattern ==
    <<{"C", "Cyr_Es"}, {"O", "Arm_Oh", "Gr_Omicron", "0"}, {"M", "Gr_Mu"},
      {"B", "Gr_Beta", "8"}, {"O", "Arm_Oh", "Gr_Omicron", "0"}>>
ReValidate(text) ==
    Len(text) = Len(ComboPattern) /\ \A i \in DOMAIN text : text[i] \in ComboPattern[i]

\* a validation of the text as it was typed
ValidateUnfiltered(value) == ReValidate(value)

\* game.rs:443-449: GameScene::validate_value, and validate_combo of the
\* settings page
ValidateValue(value) == ReValidate(ReFilter(value))

\* the texts a player may submit: five characters, each the Latin letter, a
\* look-alike or something else; varied; filled up to around 50 bytes
DefaultCombo == <<"C", "O", "M", "B", "O">>
BaseTexts ==
    {<<a, b, c, d, e>> : a \in {"C", "Cyr_Es"}, b \in {"O", "0", "o"}, c \in {"M", "Gr_Mu"},
                         d \in {"B", "8"}, e \in {"O", "Arm_Oh"}}
Variations(t) ==
    {t, <<t[1], " ">> \o Tail(t), <<t[1], "-">> \o Tail(t), <<"e_acute">> \o t,
     SubSeq(t, 1, 4), Append(t, "O")}
Fill(c, n) == [i \in 1..n |-> c]
FillLengths == {0, COMBO_MAX_LEN - 5, COMBO_MAX_LEN - 4}
ComboTexts ==
    {v \o Fill(c, n) : v \in UNION {Variations(t) : t \in BaseTexts},
                        c \in {" ", "o"}, n \in FillLengths}
\* the texts a stored config may hold
StoredCombos == {DefaultCombo, <<"o", "-", "o">>, Fill("o", COMBO_MAX_LEN + 1)}

\* settings.rs:721-732: OtherList::update with a submitted combo text
SubmitCombo(c, text) ==
    IF ValidateValue(text) \/ StrLen(text) > COMBO_MAX_LEN
    THEN [c EXCEPT !.message = Some("not-combo")]
    ELSE [c EXCEPT !.combo = text, !.message = None]

\* game.rs:588-604: the label under the combo number
ComboLabel(c) ==
    IF ValidateValue(c.combo) \/ StrLen(c.combo) > COMBO_MAX_LEN
    THEN "AUTOPLAY" ELSE c.combo

\* the settings page takes a submitted text, once: cfg.input keeps it
OtherListUpdate ==
    /\ pc = "cfg_page"
    /\ \E text \in ComboTexts :
         /\ cfg' = Some([SubmitCombo(cfg[1], text) EXCEPT !.label = None, !.input = text])
         /\ calls' = <<"settings.update">>
    /\ pc' = "cfg_hud"
    /\ UNCHANGED <<config, scene, since_tap, RE_UPLOAD, dialog, loading, effect, chart, result, note, page, stored>>

\* the HUD of a game draws the label
GameUiCombo ==
    /\ pc \in {"cfg_page", "cfg_hud"}
    /\ cfg' = Some([cfg[1] EXCEPT !.label = Some(ComboLabel(cfg[1]))])
    /\ calls' = <<"game.ui">>
    /\ UNCHANGED <<pc, config, scene, since_tap, RE_UPLOAD, dialog, loading, effect, chart, result, note, page, stored>>

NextCombo ==
    \/ OtherListUpdate
    \/ GameUiCombo

\* a stored config is initialised: cfg.before keeps what was stored
ConfigInitStep ==
    /\ pc = "cfg_loaded"
    /\ cfg' = Some([ConfigInit(cfg[1]) EXCEPT !.before = cfg[1].mods])
    /\ calls' = <<"config.init">>
    /\ pc' = "cfg_init"
    /\ UNCHANGED <<config, scene, since_tap, RE_UPLOAD, dialog, loading, effect, chart, result, note, page, stored>>

\* a scene of some mode is made with it: cfg.made_for is the mode
GameSceneNewMods ==
    /\ pc = "cfg_init"
    /\ \E m \in Modes :
         cfg' = Some([ModsOfMode(m, cfg[1]) EXCEPT !.before = cfg[1].mods, !.made_for = Some(m)])
    /\ calls' = <<"game.new">>
    /\ pc' = "cfg_game"
    /\ UNCHANGED <<config, scene, since_tap, RE_UPLOAD, dialog, loading, effect, chart, result, note, page, stored>>

NextMods ==
    \/ ConfigInitStep
    \/ GameSceneNewMods
InitMods ==
    /\ pc = "cfg_loaded"
    /\ GameNew
    /\ mode = "Normal" /\ interactive /\ ~double_click_to_pause /\ offset = 0
    /\ PlainRun
    /\ loading = None
    /\ effect = None
    /\ chart = None
    /\ result = None
    /\ note = None
    /\ page = None
    /\ stored = None
    /\ \E mods \in ModsValues, legacy \in {None, Some(TRUE), Some(FALSE)} :
         cfg = Some([mods |-> mods, autoplay |-> legacy, before |-> mods, made_for |-> None,
                     combo |-> DefaultCombo, message |-> None, label |-> None,
                     input |-> <<>>])
SpecMods == InitMods /\ [][NextMods]_vars

InitCombo ==
    /\ pc = "cfg_page"
    /\ GameNew
    /\ mode = "Normal" /\ interactive /\ ~double_click_to_pause /\ offset = 0
    /\ PlainRun
    /\ loading = None
    /\ effect = None
    /\ chart = None
    /\ result = None
    /\ note = None
    /\ page = None
    /\ stored = None
    /\ \E text \in StoredCombos :
         cfg = Some([mods |-> 0, autoplay |-> None, before |-> 0, made_for |-> None,
                     combo |-> text, message |-> None, label |-> None,
                     input |-> <<>>])
SpecCombo == InitCombo /\ [][NextCombo]_vars

\* ---------------------------------------------------------------- a note
\* 30 s and FADEOUT_TIME, in centiseconds
HALF_MINUTE == 3000
FADEOUT_TIME == 16
NoteKinds == {"Click", "Hold", "Flick", "Drag"}
ChartFormats == {"Rpe", "Pec", "Pgr"}
\* a Hold ends HoldLength after its time; frames are rendered up to NoteMaxTime
HoldLength == 100
NoteMaxTime == 250
\* wall-clock steps between two frames of the note
NoteTicks == {25, 50}
\* res.config.speed, in thousandths
NoteSpeeds == {500, 1000}
\* the chart's BPM list: the BPM from each time on
NoteBpmList == <<[time |-> 0, bpm |-> 120], [time |-> 150, bpm |-> 60]>>
\* BpmList::now_bpm
NowBpm(list, t) ==
    LET i == CHOOSE i \in DOMAIN list :
                 /\ list[i].time <= t
                 /\ \A j \in DOMAIN list : list[j].time <= t => j <= i
    IN list[i].bpm
\* note.rs:167: what now_bpm is asked for; an index is read as seconds
BpmArg(n) == IF n.format = "Pgr" THEN n.index * 100 ELSE n.time
\* note.rs:166-170: beat / res.config.speed
ParticleInterval(n, res) ==
    ((HALF_MINUTE \div NowBpm(NoteBpmList, BpmArg(n))) * 1000) \div res.speed
\* note.rs:171-175
ParticleColour(n, res) ==
    IF n.judge.perfect /\ ~res.all_good /\ ~res.all_bad THEN "fx_perfect" ELSE "fx_good"

NotJudged == [tag |-> "NotJudged", perfect |-> FALSE, at |-> 0]
JudgedStatus == [tag |-> "Judged", perfect |-> FALSE, at |-> 0]
HoldStatus(perfect, at) == [tag |-> "Hold", perfect |-> perfect, at |-> at]

\* an update that counts the interval from the particle time that was due
NoteUpdateFromDue(x) ==
    LET n == [x.n EXCEPT !.object_time = x.res.time]
        res == x.res
    IN IF n.judge.tag = "Hold" /\ res.time >= n.judge.at
       THEN [n |-> [n EXCEPT !.judge.at = @ + ParticleInterval(n, res)],
             res |-> [res EXCEPT !.emitted = Append(@, ParticleColour(n, res))]]
       ELSE [n |-> n, res |-> res]

\* note.rs:160-193: Note::update
NoteUpdateFn(x) ==
    LET n == [x.n EXCEPT !.object_time = x.res.time]
        res == x.res
    IN IF n.judge.tag = "Hold" /\ res.time >= n.judge.at
       THEN [n |-> [n EXCEPT !.judge.at = res.time + ParticleInterval(n, res)],
             res |-> [res EXCEPT !.emitted = Append(@, ParticleColour(n, res))]]
       ELSE [n |-> n, res |-> res]

\* note.rs:67-97: draw_tex and draw_tex_pts push the quads unless they are
\* culled
DrawTex(quads, c) == IF c.on_screen THEN quads ELSE <<>>

\* note.rs:300-420: the quads of a Hold
HoldQuads(n, res, c) ==
    IF n.fake /\ res.time >= n.end_time THEN <<>>
    ELSE IF res.time >= n.end_time THEN <<>>
    ELSE IF n.format = "Pgr" /\ c.end_spd_zero /\ ~c.chart_debug THEN <<>>
    ELSE IF res.time < n.time /\ c.below /\ ~c.hold_partial_cover /\ n.format # "Pgr"
    THEN <<>>
    ELSE DrawTex(<<"hold_body">>
                 \o (IF res.time < n.time \/ c.hold_keep_head
                     THEN <<"hold_head">> ELSE <<>>)
                 \o <<"hold_tail">>, c)

\* a render that draws a judged note like any other
NoteRenderJudged(n, res, c) ==
    IF c.appear_time # None /\ c.appear_time[1] > res.time THEN <<>>
    ELSE IF c.invisible_time # INFINITY /\ n.time - c.invisible_time < res.time THEN <<>>
    ELSE IF c.aggressive_far /\ n.format = "Pec" /\ n.kind = "Hold" THEN <<>>
    ELSE IF /\ ~c.draw_below
            /\ \/ (res.time - FADEOUT_TIME >= n.time /\ n.kind # "Hold")
               \/ (n.time > res.time /\ c.covered)
            /\ ~c.chart_debug
    THEN <<>>
    ELSE IF n.kind = "Hold" THEN HoldQuads(n, res, c)
    ELSE IF n.fake /\ res.time >= n.time THEN <<>>
    ELSE DrawTex(<<n.kind>>, c)

\* note.rs:215-430: Note::render, as the quads it pushes to the note buffer
NoteRenderFn(n, res, c) ==
    IF n.judge.tag = "Judged" /\ n.kind # "Hold" THEN <<>>
    ELSE IF c.appear_time # None /\ c.appear_time[1] > res.time THEN <<>>
    ELSE IF c.invisible_time # INFINITY /\ n.time - c.invisible_time < res.time THEN <<>>
    ELSE IF c.aggressive_far /\ n.format = "Pec" /\ n.kind = "Hold" THEN <<>>
    ELSE IF /\ ~c.draw_below
            /\ \/ (res.time - FADEOUT_TIME >= n.time /\ n.kind # "Hold")
               \/ (n.time > res.time /\ c.covered)
            /\ ~c.chart_debug
    THEN <<>>
    ELSE IF n.kind = "Hold" THEN HoldQuads(n, res, c)
    ELSE IF n.fake /\ res.time >= n.time THEN <<>>
    ELSE DrawTex(<<n.kind>>, c)

\* note.rs:290-293: the factor (self.time - res.time).min(0.) / FADEOUT_TIME + 1.
\* that draw applies to the alpha, in units of 1 / FADEOUT_TIME; a note drawn
\* from below is not faded
FadeOut(n, res, c) ==
    IF c.draw_below THEN FADEOUT_TIME
    ELSE Min(n.time - res.time, 0) + FADEOUT_TIME

\* note.rs:288-297, 298-302, 421-428: the fade-out factors of the quads that
\* draw pushes; the quads of a Hold are not faded
NoteFadeFn(n, res, c) ==
    IF n.kind # "Hold" /\ NoteRenderFn(n, res, c) # <<>>
    THEN <<FadeOut(n, res, c)>> ELSE <<>>

\* what a render is given besides the note: the RenderConfig, the flags of
\* res.config and the outcome of each test on the geometry; an input the code
\* does not read for this note at this time is left FALSE
RenderInputs(n, res) ==
    {c \in [appear_time : {None, Some(NoteTime - 50)},
            invisible_time : {INFINITY, 50},
            draw_below : BOOLEAN, chart_debug : BOOLEAN, covered : BOOLEAN,
            aggressive_far : BOOLEAN, end_spd_zero : BOOLEAN, below : BOOLEAN,
            hold_partial_cover : BOOLEAN, hold_keep_head : BOOLEAN,
            on_screen : BOOLEAN] :
        /\ n.kind # "Hold" =>
              /\ ~c.aggressive_far /\ ~c.end_spd_zero /\ ~c.below
              /\ ~c.hold_partial_cover /\ ~c.hold_keep_head
        /\ n.format # "Pec" => ~c.aggressive_far
        /\ n.format # "Pgr" => ~c.end_spd_zero
        /\ n.time <= res.time => (~c.covered /\ ~c.below /\ ~c.hold_partial_cover)
        /\ n.time > res.time => ~c.hold_keep_head}

\* the next frame begins: the time advances, the note buffer and the
\* particles of the last frame are gone
NoteTick ==
    /\ pc = "n_tick"
    /\ \E dt \in NoteTicks :
         /\ note[1].res.time + dt <= NoteMaxTime
         /\ note' = Some([note[1] EXCEPT !.res.time = @ + dt, !.res.emitted = <<>>,
                                         !.res.note_buffer = <<>>, !.res.fade = <<>>,
                                         !.res.draw_below = FALSE,
                                         !.res.chart_debug = FALSE])
    /\ pc' = "n_judge"
    /\ calls' = <<"tick">>
    /\ UNCHANGED <<config, scene, since_tap, RE_UPLOAD, dialog, loading, effect, chart, result, cfg, page, stored>>

\* the judge leaves the note alone, takes a hit (a Hold is then held, with a
\* particle due at the time of the hit or at the note's time), or ends the note
NoteJudge ==
    /\ pc = "n_judge"
    /\ LET n == note[1].n
           t == note[1].res.time
       IN \E j \in {n.judge}
                   \cup (IF n.judge.tag = "NotJudged" /\ n.kind = "Hold"
                         THEN {HoldStatus(p, at) : p \in BOOLEAN, at \in {n.time, t}}
                         ELSE {})
                   \cup (IF n.judge.tag = "Hold" \/ n.kind # "Hold"
                         THEN {JudgedStatus} ELSE {}) :
            note' = Some([note[1] EXCEPT !.n.judge = j])
    /\ pc' = "n_update"
    /\ calls' = <<"judge.update">>
    /\ UNCHANGED <<config, scene, since_tap, RE_UPLOAD, dialog, loading, effect, chart, result, cfg, page, stored>>

NoteUpdate ==
    /\ pc = "n_update"
    /\ note' = Some(NoteUpdateFn(note[1]))
    /\ pc' = "n_render"
    /\ calls' = <<"note.update">>
    /\ UNCHANGED <<config, scene, since_tap, RE_UPLOAD, dialog, loading, effect, chart, result, cfg, page, stored>>

NoteRender ==
    /\ pc = "n_render"
    /\ \E c \in RenderInputs(note[1].n, note[1].res) :
         note' = Some([note[1] EXCEPT
                          !.res.note_buffer = @ \o NoteRenderFn(note[1].n, note[1].res, c),
                          !.res.fade = @ \o NoteFadeFn(note[1].n, note[1].res, c),
                          !.res.draw_below = c.draw_below,
                          !.res.chart_debug = c.chart_debug])
    /\ pc' = "n_tick"
    /\ calls' = <<"note.render">>
    /\ UNCHANGED <<config, scene, since_tap, RE_UPLOAD, dialog, loading, effect, chart, result, cfg, page, stored>>

NextNote ==
    \/ NoteTick
    \/ NoteJudge
    \/ NoteUpdate
    \/ NoteRender
InitNote ==
    /\ pc = "n_judge"
    /\ GameNew
    /\ mode = "Normal" /\ interactive /\ ~double_click_to_pause /\ offset = 0
    /\ PlainRun
    /\ loading = None
    /\ effect = None
    /\ chart = None
    /\ result = None
    /\ cfg = None
    /\ page = None
    /\ stored = None
    /\ \E kind \in NoteKinds, fake \in BOOLEAN, format \in ChartFormats, index \in {1, 2},
          sp \in NoteSpeeds, all_good \in BOOLEAN, all_bad \in BOOLEAN :
         /\ format # "Pgr" => index = 1
         /\ kind # "Hold" => (sp = SPEED_ONE /\ ~all_good /\ ~all_bad)
         /\ note = Some([n |-> [kind |-> kind, time |-> NoteTime,
                                end_time |-> IF kind = "Hold" THEN NoteTime + HoldLength
                                             ELSE NoteTime,
                                fake |-> fake, format |-> format, index |-> index,
                                judge |-> NotJudged, object_time |-> 0],
                         res |-> [time |-> 0, speed |-> sp, all_good |-> all_good,
                                  all_bad |-> all_bad, emitted |-> <<>>,
                                  note_buffer |-> <<>>, fade |-> <<>>,
                                  draw_below |-> FALSE, chart_debug |-> FALSE]])
SpecNote == InitNote /\ [][NextNote]_vars

\* frames a few hundredths of a second apart, to look at a fade-out
FadeTicks == {4, 50}
NoteTickFine ==
    /\ pc = "n_tick"
    /\ \E dt \in FadeTicks :
         /\ note[1].res.time + dt <= NoteMaxTime
         /\ note' = Some([note[1] EXCEPT !.res.time = @ + dt, !.res.emitted = <<>>,
                                         !.res.note_buffer = <<>>, !.res.fade = <<>>,
                                         !.res.draw_below = FALSE,
                                         !.res.chart_debug = FALSE])
    /\ pc' = "n_judge"
    /\ calls' = <<"tick">>
    /\ UNCHANGED <<config, scene, since_tap, RE_UPLOAD, dialog, loading, effect, chart, result, cfg, page, stored>>

\* a note that is no Hold, in frames a few hundredths of a second apart
NextFade ==
    \/ NoteTickFine
    \/ NoteJudge
    \/ NoteUpdate
    \/ NoteRender
InitFade ==
    /\ InitNote
    /\ note[1].n.kind # "Hold"
    /\ note[1].n.format = "Rpe"
SpecFade == InitFade /\ [][NextFade]_vars

\* An offset-tweak scene whose offset buttons are operated, for every BPM
NextOffset ==
    \/ Enter
    \/ Tick
    \/ Update
    \/ RenderOffset
    \/ NextScene
InitOffset ==
    /\ Init
    /\ mode = "TweakOffset" /\ ~double_click_to_pause /\ offset = 0
    /\ ~closed /\ ~autoplay /\ speed = 1000 /\ ~offline_mode
    /\ ~upload_fn /\ ~player /\ ~chart_id
SpecOffset == InitOffset /\ [][NextOffset]_vars

\* ------------------------------------------------------------- properties
\* the place of a call in the log of the last handler, 0 when it was not made
Pos(name) ==
    IF \E i \in DOMAIN calls : calls[i] = name
    THEN CHOOSE i \in DOMAIN calls : calls[i] = name
    ELSE 0

\* one step forward along Starting -> BeforeMusic -> Playing -> Ending
Forward(s, t) ==
    <<s, t>> \in {<<"Starting", "BeforeMusic">>, <<"BeforeMusic", "Playing">>,
                  <<"Playing", "Ending">>}

\* the last handler was a reset: scene enter, retry, or saving a new speed
WasReset ==
    Pos("enter") # 0 \/ Pos("button.retry") # 0 \/ Pos("button.save_speed") # 0

\* the step is an update frame
IsUpdate == pc = "update" /\ pc' = "render"

\* the step is a render frame
IsRender == pc = "render" /\ pc' = "update"

\* game.rs:1051: the logical time an update frame works with
FrameTime == ExerciseReset(Cur).tm.now

TypeOK ==
    /\ pc \in {"new", "update", "render", "background", "overlaid", "popped", "back",
              "aborted", "page", "page_exited", "rec",
              "e_touch", "e_update", "e_next", "e_background",
              "l_new", "l_update", "l_next",
              "fx_new", "fx_failed", "fx_update", "fx_render",
              "ch_new", "ch_made", "ch_frame",
              "j_play", "j_done",
              "cfg_loaded", "cfg_init", "cfg_game", "cfg_page", "cfg_hud"}
    /\ state \in States
    /\ tm.paused \in BOOLEAN
    /\ tm.speed \in SliderSpeeds \cup Speeds
    /\ music.playback_rate \in SliderSpeeds \cup Speeds
    /\ music.pos \in 0..track_length


C2_PhaseChanges ==
    [][state' # state =>
          \/ Forward(state, state')
          \/ state' = "Starting" /\ WasReset'
          \/ state' = "BeforeMusic" /\ Pos("button.resume")' # 0]_vars

\* the resume button put the scene back into BeforeMusic after the note was
\* judged, which happens in Playing at the earliest
C2_Witness ==
    /\ state = "BeforeMusic"
    /\ Pos("button.resume") # 0
    /\ notes[1] = "Judged"

\* C2 as stated: one step forward, or a reset to Starting, and nothing else
C2_ForwardOrReset ==
    [][state' # state =>
          \/ Forward(state, state')
          \/ state' = "Starting" /\ WasReset']_vars

\* C3 (as the code has it): an update in phase BeforeMusic with logical time
\* < 0 leaves the phase BeforeMusic and does not start the music;
\* an update with logical time >= 0 seeks the music to that logical time (a
\* position within the track), starts it, and makes the phase Playing; only a
\* key handled later in the same frame can move or pause the music again.
C3_BeforeMusic ==
    [][(IsUpdate /\ state = "BeforeMusic") =>
          IF FrameTime < 0
          THEN /\ state' = "BeforeMusic"
               /\ Pos("music.play")' = 0
               /\ music.paused => music'.paused
          ELSE /\ state' = "Playing"
               /\ Pos("music.play")' # 0
               /\ Pos("key.seek")' = 0 => music'.pos = Clamp(FrameTime, 0, track_length)
               /\ Pos("key.pause")' = 0 => ~music'.paused]_vars

\* the music was started at a position other than 0
C3_Witness ==
    /\ pc = "render"
    /\ state = "Playing"
    /\ Pos("music.play") # 0
    /\ Pos("key.seek") = 0
    /\ music.pos > 0

\* C3 as stated: the update that starts the music seeks it to position 0
C3_SoughtToZero ==
    [][(IsUpdate /\ state = "BeforeMusic" /\ FrameTime >= 0 /\ Pos("key.seek")' = 0) =>
          music'.pos = 0]_vars

\* C4 (as the code has it): an update in phase Playing makes the phase Ending
\* exactly when its logical time t > track_length + WAIT_TIME, and Ending is
\* entered in no other way; an update in phase Ending produces the next scene
\* exactly when t - track_length - WAIT_TIME >= AFTER_TIME + 0.3, and then
\* only in the modes other than Exercise: in Exercise mode nothing is produced.
C4_Ending ==
    [][IsUpdate =>
          LET t == FrameTime - track_length - WAIT_TIME IN
          /\ state = "Playing" =>
                (state' = "Ending" <=> FrameTime > track_length + WAIT_TIME)
          /\ (state' = "Ending" /\ state # "Ending") => state = "Playing"
          /\ (state = "Ending" /\ t >= AFTER_TIME + AFTER_EXTRA /\ mode # "Exercise") =>
                next_scene' # None
          /\ (state # "Ending" \/ t < AFTER_TIME + AFTER_EXTRA \/ mode = "Exercise") =>
                next_scene' = None]_vars

\* an Exercise-mode update in phase Ending, past the resolving time, that
\* produced nothing
C4_Witness ==
    /\ pc = "render"
    /\ mode = "Exercise"
    /\ state = "Ending"
    /\ tm.paused
    /\ tm.now - track_length - WAIT_TIME >= AFTER_TIME + AFTER_EXTRA
    /\ next_scene = None

\* C4 as stated: in Ending, the first update past the resolving time produces
\* the next scene
C4_Resolves ==
    [][(IsUpdate /\ state = "Ending"
          /\ FrameTime - track_length - WAIT_TIME >= AFTER_TIME + AFTER_EXTRA) =>
          next_scene' # None]_vars

\* C5 as stated, its last part: at every frame boundary while the phase is
\* Starting the music is paused.
C5_MusicPausedInStarting ==
    (pc = "update" /\ state = "Starting") => music.paused

\* C5, its first part, which the code keeps: a reset leaves the phase Starting,
\* and an update in phase Starting keeps it for a logical time < BEFORE_DURATION
\* and makes it BeforeMusic otherwise.
C5_StartingLasts ==
    [][/\ WasReset' => state' = "Starting"
       /\ (IsUpdate /\ state = "Starting") =>
             state' = IF FrameTime < BEFORE_DURATION THEN "Starting" ELSE "BeforeMusic"]_vars

\* the music plays at a frame boundary in phase Starting
C5_Witness ==
    pc = "update" /\ state = "Starting" /\ ~music.paused /\ Pos("button.resume") # 0

\* C6: in an update frame judge.update is called if and only if the time
\* manager is not paused when the call is reached and the mode is not View;
\* a frame that does not call it (and does not reset the run) leaves the
\* judge, the notes and the bad-note trails as they were. Whether the time
\* manager was paused at the call is read off the frame's end: the Space key,
\* handled after the call, is the only thing that changes it in between.
C6_JudgeFrozenByPause ==
    [][IsUpdate =>
          LET paused == IF Pos("key.pause")' # 0 THEN FALSE
                        ELSE IF Pos("key.resume")' # 0 THEN TRUE
                        ELSE tm'.paused
          IN /\ Pos("judge.update")' # 0 <=> (~paused /\ mode # "View")
             /\ (Pos("judge.update")' = 0 /\ Pos("exercise.reset")' = 0) =>
                   UNCHANGED <<judge, notes, bad_notes>>]_vars

\* a paused frame past the note's time that left the note unjudged
C6_Witness ==
    /\ pc = "render"
    /\ mode # "View"
    /\ tm.paused
    /\ Pos("chart.update") # 0 /\ Pos("judge.update") = 0
    /\ res_time >= NoteTime
    /\ notes[1] = "NotJudged"

\* C7 as stated: with double_click_to_pause enabled, a tap on the pause button
\* pauses only if an earlier tap on the button happened at most
\* PAUSE_CLICK_INTERVAL before it in wall time (since_tap is the wall time
\* since the last tap that was taken as a first tap).
C7_LoneTapNeverPauses ==
    [][(IsRender /\ double_click_to_pause /\ Pos("button.pause")' # 0) =>
          (pause_first_time # None /\ since_tap <= PAUSE_CLICK_INTERVAL)]_vars

\* C7, its last part, which the code keeps: with the option disabled, a tap
\* on the pause button of a frame where the button is live pauses.
C7_SingleTapPauses ==
    (pc = "render" /\ ~double_click_to_pause /\ interactive /\ ~tm.paused
        /\ pause_rewind = None) =>
        PauseButton(Cur, [kind |-> "pause", p |-> 0]).tm.paused

\* C8 (as the code has it): resuming with the Space key, and the scene's own
\* resume when the application comes back, leave logical time as it was in
\* the pause (the range's start, when the pause is the exercise reset of the
\* same frame);
\* the overlay's resume button resumes RESUME_REWIND (1 s) before it, or
\* RESUME_REWIND before the exercise range's start when logical time was past
\* the range's end.
C8_ResumeTime ==
    [][/\ (IsUpdate /\ Pos("key.resume")' # 0) =>
             /\ ~tm'.paused
             /\ tm'.now = IF Pos("exercise.reset")' # 0 THEN exercise_range.start
                          ELSE tm.now
       /\ pc = "background" => tm'.now = tm.now
       /\ (IsRender /\ Pos("button.resume")' # 0) =>
             /\ ~tm'.paused
             /\ tm'.now = (IF tm.now > exercise_range.end
                           THEN exercise_range.start ELSE tm.now) - RESUME_REWIND]_vars

\* the resume button was tapped after the note was judged, so in a pause at a
\* logical time >= 0, and the scene runs again at a logical time < 0
C8_Witness ==
    /\ Pos("button.resume") # 0
    /\ ~tm.paused
    /\ tm.now < 0
    /\ notes[1] = "Judged"
    /\ pause_rewind = Some(<<tm.now, RESUME_REWIND>>)

\* C8 as stated: right after a resume, by the button or by the Space key,
\* logical time is what it was in the pause
C8_ResumeKeepsTime ==
    [][((IsRender /\ Pos("button.resume")' # 0)
          \/ (IsUpdate /\ Pos("key.resume")' # 0 /\ Pos("exercise.reset")' = 0)) =>
          tm'.now = tm.now]_vars

\* C9 (as the code has it): in every update frame without a seek key the
\* music time res.time the chart is updated and then rendered with satisfies
\* 0 <= res.time, and res.time <= track_length + WAIT_TIME - offset unless the
\* frame is one in which the phase becomes Playing or Ending (a frame that
\* comes late enters the phase with whatever logical time it has reached).
C9_ResTimeRange ==
    [][(IsUpdate /\ Pos("key.seek")' = 0) =>
          /\ 0 <= res_time'
          /\ ~(state' # state /\ state' \in {"Playing", "Ending"}) =>
                res_time' <= track_length + WAIT_TIME - offset]_vars

\* a frame that began in phase Playing (time.update was called) and stays in
\* it, whose music time is beyond the track's length
C9_Witness ==
    /\ pc = "render"
    /\ state = "Playing"
    /\ Pos("time.update") # 0
    /\ Pos("key.seek") = 0
    /\ res_time > track_length

\* C9 as stated: -BEFORE_DURATION <= res.time <= track_length in every frame
\* that is not a seek
C9_WithinTrack ==
    (pc = "render" /\ Pos("key.seek") = 0) =>
        (-BEFORE_DURATION <= res_time /\ res_time <= track_length)

\* C10 as stated: in Exercise mode, the update that finds logical time past
\* the range's end resets the run (judge reset, the note NotJudged, no
\* bad-note trail), puts logical time at the range's start, and leaves both the
\* time manager and the music paused. A frame in which a key, handled after
\* the reset, resumes the game or seeks is left aside.
C10_ResetPausesAtStart ==
    [][(IsUpdate /\ Pos("exercise.reset")' # 0
          /\ Pos("key.resume")' = 0 /\ Pos("key.seek")' = 0) =>
          /\ judge' = JudgeNew /\ notes'[1] = "NotJudged" /\ bad_notes' = <<>>
          /\ tm'.now = exercise_range.start
          /\ tm'.paused
          /\ music'.paused]_vars

\* C10, the case the code keeps: the same, for an update that begins in phase
\* Playing or Ending.
C10_ResetWhilePlaying ==
    [][(IsUpdate /\ Pos("exercise.reset")' # 0 /\ state \in {"Playing", "Ending"}
          /\ Pos("key.resume")' = 0 /\ Pos("key.seek")' = 0) =>
          /\ judge' = JudgeNew /\ notes'[1] = "NotJudged" /\ bad_notes' = <<>>
          /\ tm'.now = exercise_range.start
          /\ tm'.paused
          /\ music'.paused
          /\ state' = state]_vars

\* an exercise reset after which the music plays while the time manager is
\* paused
C10_Witness ==
    /\ pc = "render"
    /\ mode = "Exercise"
    /\ Pos("exercise.reset") # 0
    /\ Pos("key.resume") = 0 /\ Pos("key.seek") = 0
    /\ tm.paused
    /\ ~music.paused

\* C11 (as the code has it): a tap that hits the retry button of the pause
\* overlay is dropped only in NoRetry mode, where it leaves the phase, the
\* judge, the notes, logical time and the music as they were; in every other
\* mode, TweakOffset included, it resets the run: the phase is Starting, the
\* judge and the notes are reset and logical time is 0.
C11_RetryDisabled ==
    [][(IsRender /\ Pos("clicked.retry")' # 0) =>
          IF mode = "NoRetry"
          THEN /\ Pos("button.retry")' = 0
               /\ UNCHANGED <<state, judge, notes, tm, music>>
          ELSE /\ Pos("button.retry")' # 0
               /\ state' = "Starting"
               /\ judge' = JudgeNew /\ notes'[1] = "NotJudged"
               /\ tm'.now = 0]_vars

\* in TweakOffset mode the retry button was tapped and the run is back at its
\* start
C11_Witness ==
    /\ mode = "TweakOffset"
    /\ Pos("button.retry") # 0
    /\ state = "Starting"
    /\ notes[1] = "NotJudged"
    /\ tm.now = 0

\* C11 as stated: in TweakOffset mode a tap on the retry button leaves the
\* phase, the judge, the notes and logical time unchanged
C11_RetryOffInTweakOffset ==
    [][(IsRender /\ mode = "TweakOffset" /\ Pos("clicked.retry")' # 0) =>
          /\ UNCHANGED <<state, judge, notes>>
          /\ tm'.now = tm.now]_vars

\* C12 (as the code has it): info_offset changes only in a render frame of an
\* interactive TweakOffset scene in phase Playing, by a tap on an offset
\* button; the two small buttons change it by -1 and +1 ms, the two middle
\* ones by -10 and +10 ms, and the two large ones by a quarter of a beat,
\* 15 / BPM seconds kept within 20 ms .. 500 ms, which is 100 ms only at
\* 150 BPM.
C12_OffsetButtons ==
    [][/\ info_offset' # info_offset =>
             /\ IsRender /\ mode = "TweakOffset" /\ interactive /\ state = "Playing"
             /\ \E k \in OffsetButtons : Pos(k)' # 0
       /\ \A k \in OffsetButtons : (IsRender /\ Pos(k)' # 0) =>
             info_offset' - info_offset =
                CASE k = "ti_sub" -> -1
                  [] k = "ti_add" -> 1
                  [] k = "sm_sub" -> -10
                  [] k = "sm_add" -> 10
                  [] k = "lg_sub" -> -Max(20, Min(15000 \div bpm, 500))
                  [] k = "lg_add" -> Max(20, Min(15000 \div bpm, 500))]_vars

\* at 1500 BPM, where a quarter of a beat is 10 ms, the large + button made
\* the adjustment 20 ms
C12_Witness ==
    /\ bpm = 1500
    /\ Pos("lg_add") # 0
    /\ info_offset = 20

\* C12 as stated: the large buttons change info_offset by -100 and +100 ms
\* for every chart BPM
C12_LargeStepIs100 ==
    [][/\ (IsRender /\ Pos("lg_sub")' # 0) => info_offset' = info_offset - 100
       /\ (IsRender /\ Pos("lg_add")' # 0) => info_offset' = info_offset + 100]_vars

\* C13 (as the code has it): a TweakOffset scene always leaves with a
\* PopWithResult; its result is the current info_offset when the close button
\* was tapped (and no exit was requested before), and no result (None) when
\* the scene leaves by the overlay's back button, the Q key, or the track
\* reaching its end.
C13_PopResult ==
    [][(pc' = "popped" /\ mode = "TweakOffset") =>
          /\ Pos("PopWithResult")' # 0
          /\ pop_result' = IF ~should_exit /\ Pos("button.cancel") # 0
                            THEN Some(info_offset) ELSE None]_vars

\* the scene left by an exit request (back button or Q key) with an adjusted
\* offset, and handed back no result
C13_Witness ==
    /\ pc = "popped"
    /\ mode = "TweakOffset"
    /\ should_exit
    /\ info_offset # 0
    /\ pop_result = None

\* C13 as stated: however a TweakOffset scene leaves, its result is the
\* current offset
C13_AlwaysReturnsOffset ==
    (pc = "popped" /\ mode = "TweakOffset") => pop_result = Some(info_offset)

\* C14: the ending scene a run makes carries upload data only if the build
\* has the upload code, autoplay is off, speed >= 1.0 - 0.001, offline mode is
\* off, and an upload function, a player and a chart id exist; it carries the
\* local record exactly when autoplay is off and speed >= 1.0 - 0.001; an
\* upload task runs only in a scene that carries upload data. So a run with
\* autoplay on or speed < 0.999 yields neither.
C14_UploadAndRecord ==
    ending # None =>
        LET e == ending[1] IN
        /\ e.record_data # None =>
              /\ ~autoplay /\ speed >= 999 /\ ~offline_mode
              /\ upload_fn /\ player /\ chart_id
        /\ e.record # None <=> (~autoplay /\ speed >= 999)
        /\ e.upload_task # None => e.record_data # None
        /\ (autoplay \/ speed < 999) =>
              (e.record_data = None /\ e.record = None /\ e.upload_task = None)

\* a run at speed 0.999 whose ending scene uploads and carries a record
C14_Witness ==
    /\ ending # None
    /\ speed = 999
    /\ ending[1].upload_task # None
    /\ ending[1].record # None
    /\ Pos("ending.new") # 0

\* C15 as stated, for the game scene: when the scene has left on an exit
\* request (should_exit), the music is paused.
C15_MusicPausedOnExit ==
    (pc = "popped" /\ should_exit) => music.paused

\* the scene left on the Q key, pressed in phase Playing, and its music plays
C15_Witness ==
    /\ pc = "popped"
    /\ should_exit
    /\ state = "Playing"
    /\ ~music.paused

\* C15, the part the code keeps: whenever the ending scene's next_scene
\* returns something other than None, its background music is paused.
C15_EndingPausesBgm ==
    [][(pc = "e_next" /\ pc' # "e_touch") =>
          (Pos("None")' = 0 /\ ending'[1].bgm.paused)]_vars

C17_ErrorPopsAtOnce ==
    [][/\ (pc = "l_next" /\ loading[1].load_result = Some("err")) =>
             (pc' = "popped" /\ Pos("PopWithResult")' # 0 /\ Pos("Replace")' = 0)
       /\ Pos("Replace")' # 0 => loading[1].load_result = Some("ok")]_vars

\* the scene popped on an error before the transition time had passed
C17_Witness ==
    /\ pc = "popped"
    /\ Pos("PopWithResult") # 0
    /\ loading[1].load_result = Some("err")
    /\ tm.now < loading[1].finish_time[1]

\* C18: the update in which the load completes sets finish_time to its
\* logical time + BEFORE_TIME (1.0 s); next_scene returns Replace exactly when
\* the load has succeeded, the scene has not been handed over yet, and logical
\* time is strictly greater than finish_time + TRANSITION_TIME (1.4 s), and
\* None for a load that is pending or a transition that is not over; once
\* handed over, there is nothing left to hand over.
C18_HandOver ==
    [][/\ (pc = "l_update" /\ pc' = "l_next" /\ loading[1].load_task # None
              /\ loading'[1].load_task = None) =>
             loading'[1].finish_time = Some(tm.now + 100)
       /\ pc = "l_next" =>
             /\ Pos("Replace")' # 0 <=>
                   /\ loading[1].load_result = Some("ok")
                   /\ loading[1].next_scene = Some("Replace")
                   /\ tm.now > loading[1].finish_time[1] + 140
             /\ (loading[1].load_result # Some("err") /\ Pos("Replace")' = 0) =>
                   (Pos("None")' # 0 /\ pc' = "l_update")
             /\ Pos("Replace")' # 0 => (loading'[1].next_scene = None /\ pc' = "new")
       /\ (loading # None /\ loading[1].next_scene = Some("Replace")) =>
             pc \in {"l_update", "l_next"}]_vars

\* the game scene was handed over after a load that succeeded, past the
\* transition
C18_Witness ==
    /\ pc = "new"
    /\ Pos("Replace") # 0
    /\ loading[1].load_result = Some("ok")
    /\ loading[1].next_scene = None
    /\ tm.now > loading[1].finish_time[1] + 140

\* C19: a render draws if and only if the time t recorded by the most recent
\* update satisfies start <= t < end; an effect that was never updated does
\* not draw; an update records its time, and advances the time of the
\* animated uniforms if and only if start <= time < end.
C19_DrawsInRange ==
    [][/\ Pos("effect.render")' # 0 =>
             /\ effect'[1].drew <=>
                   (effect[1].time_range.start <= effect[1].t
                      /\ effect[1].t < effect[1].time_range.end)
             /\ effect[1].t = NEG_INFINITY => ~effect'[1].drew
             /\ effect'[1].t = effect[1].t /\ effect'[1].anim_t = effect[1].anim_t
       /\ Pos("effect.update")' # 0 =>
             /\ effect'[1].t \in EffectTimes
             /\ effect'[1].anim_t =
                   IF effect[1].time_range.start <= effect'[1].t
                        /\ effect'[1].t < effect[1].time_range.end
                   THEN Some(effect'[1].t) ELSE effect[1].anim_t
       /\ Pos("effect.new")' # 0 =>
             (effect' # None => effect'[1].t = NEG_INFINITY /\ effect'[1].anim_t = None)]_vars

\* an effect last updated at its range's end did not draw, and its uniforms
\* keep the time of an earlier update
C19_Witness ==
    /\ effect # None
    /\ Pos("effect.render") # 0
    /\ effect[1].t = effect[1].time_range.end
    /\ ~effect[1].drew
    /\ effect[1].anim_t = Some(effect[1].time_range.start)

\* a uniform of the chart has the name of a uniform the material already
\* declares, with another type
Mismatch(e) ==
    \E i \in DOMAIN e.uniforms, j \in DOMAIN e.material :
        /\ e.uniforms[i].name = e.material[j].name
        /\ e.uniforms[i].type # e.material[j].type

\* C20 as stated, its first part: Effect::new never produces an Effect in which
\* a chart-supplied uniform has the name of a shader default (or of time /
\* screenSize / UVScale) but a different type.
C20_MismatchFails ==
    effect # None => ~Mismatch(effect[1])

\* an Effect was made whose shader declares power as a float and whose chart
\* uniform power is a vec2
C20_Witness ==
    /\ effect # None
    /\ \E i \in DOMAIN effect[1].material :
         effect[1].material[i] = [name |-> "power", type |-> "Float1"]
    /\ effect[1].uniforms = <<[name |-> "power", type |-> "Float2"]>>

\* C20, the part the code keeps: a default of unknown type, a float default
\* that is not one number, a vec2 default without two components or a vec4
\* default without four makes Effect::new fail.
C20_BadDefaultFails ==
    [][Pos("effect.new")' # 0 =>
          LET sh == calls'[2] IN
          (\E i \in DOMAIN sh :
              \/ sh[i].type_name \notin {"float", "vec2", "vec4"}
              \/ ~sh[i].numeric
              \/ sh[i].type_name = "float" /\ sh[i].ncomp # 1
              \/ sh[i].type_name = "vec2" /\ sh[i].ncomp # 2
              \/ sh[i].type_name = "vec4" /\ sh[i].ncomp # 4)
          <=> effect' = None]_vars

\* the effect draws when rendered: its recorded time is in its range
Active(e) == e.time_range.start <= e.t /\ e.t < e.time_range.end

\* C21 as stated: after GameScene::render every chart effect whose range
\* contains the current time has made exactly one swap-and-draw pass, every
\* such global effect exactly one, and with no_effect nothing has passed.
C21_OnePassEach ==
    (chart # None /\ Pos("render") # 0) =>
        /\ \A i \in DOMAIN chart[1].effects :
             chart[1].passes[i] = IF Active(chart[1].effects[i]) THEN 1 ELSE 0
        /\ \A i \in DOMAIN chart[1].global_effects :
             chart[1].global_passes[i] = IF Active(chart[1].global_effects[i]) THEN 1 ELSE 0
        /\ chart[1].no_effect =>
             chart[1].effects = <<>> /\ chart[1].global_effects = <<>>

\* a frame was rendered in which an active chart effect passed twice
C21_Witness ==
    /\ chart # None
    /\ Pos("render") # 0
    /\ \E i \in DOMAIN chart[1].effects :
         Active(chart[1].effects[i]) /\ chart[1].passes[i] = 2

\* C21, what the code does: in one GameScene::render an active chart effect
\* passes twice (once in Chart::render, once in the scene), an active global
\* effect once, an inactive effect never.
C21_PassesPerFrame ==
    (chart # None /\ Pos("render") # 0) =>
        /\ \A i \in DOMAIN chart[1].effects :
             chart[1].passes[i] = IF Active(chart[1].effects[i]) THEN 2 ELSE 0
        /\ \A i \in DOMAIN chart[1].global_effects :
             chart[1].global_passes[i] = IF Active(chart[1].global_effects[i]) THEN 1 ELSE 0

\* the indices of order, as a set
OrderSet(c) == {c.order[k] : k \in DOMAIN c.order}

\* C22: the render order holds exactly the indices of the lines without UI
\* attachment, each once, sorted by (z_index, index); attach_ui[slot] is the
\* highest index of a line attached to that slot, None when there is none.
C22_OrderAndAttach ==
    (chart # None /\ Pos("chart.new") # 0) =>
        LET c == chart[1]
            lines == c.lines
        IN /\ OrderSet(c) = {i \in DOMAIN lines : lines[i].attach_ui = None}
           /\ Len(c.order) = Cardinality(OrderSet(c))
           /\ \A k \in DOMAIN c.order : \A l \in DOMAIN c.order :
                k < l =>
                  \/ lines[c.order[k]].z_index < lines[c.order[l]].z_index
                  \/ /\ lines[c.order[k]].z_index = lines[c.order[l]].z_index
                     /\ c.order[k] < c.order[l]
           /\ \A slot \in 1..UI_SLOTS :
                LET at == {i \in DOMAIN lines : lines[i].attach_ui = Some(slot)} IN
                IF at = {} THEN c.attach_ui[slot] = None
                ELSE c.attach_ui[slot] = Some(CHOOSE i \in at : \A j \in at : j <= i)

\* a chart of three lines: the first two share a slot, the third is drawn; and
\* a chart whose lines are drawn in another order than they are listed
C22_Witness ==
    /\ chart # None
    /\ Pos("chart.new") # 0
    /\ \/ /\ Len(chart[1].lines) = 3
          /\ chart[1].attach_ui[1] = Some(2)
          /\ chart[1].lines[1].attach_ui = Some(1)
          /\ chart[1].order = <<3>>
       \/ chart[1].order = <<2, 3, 1>>

C24_AutoplayOfRun ==
    cfg # None =>
        LET c == cfg[1]
            bit(v, b) == (v \div b) % 2
        IN /\ bit(c.mods, 2) = bit(c.before, 2) /\ bit(c.mods, 4) = bit(c.before, 4)
           /\ c.mods \in 0..7
           /\ Pos("config.init") # 0 =>
                bit(c.mods, 1) = IF c.autoplay = None THEN bit(c.before, 1)
                                 ELSE IF c.autoplay[1] THEN 1 ELSE 0
           /\ Pos("game.new") # 0 =>
                /\ c.made_for = Some("TweakOffset") => ConfigAutoplay(c)
                /\ c.made_for = Some("Exercise") => ~ConfigAutoplay(c)
                /\ c.made_for \notin {Some("TweakOffset"), Some("Exercise")} =>
                     bit(c.mods, 1) = bit(c.before, 1)

\* an Exercise scene was made from a config whose legacy field turned
\* autoplay on, with the FLIP_X bit set
C24_Witness ==
    /\ cfg # None
    /\ Pos("game.new") # 0
    /\ cfg[1].made_for = Some("Exercise")
    /\ cfg[1].autoplay = Some(TRUE)
    /\ cfg[1].before = 3
    /\ cfg[1].mods = 2

\* C25: a keyboard seek in interactive Playing puts the music and the time
\* manager on the same position within [0, track_length]: 2 s back but not
\* before 0 for Left, 5 s on but not beyond the track for Right; outside
\* phase Playing or with interactive off the two keys change nothing.
C25_KeyboardSeek ==
    [][IsUpdate =>
         /\ Pos("key.seek")' # 0 =>
              /\ interactive /\ state' = "Playing"
              /\ music'.pos = tm'.now
              /\ music'.pos >= 0 /\ music'.pos <= track_length
              /\ LET before == UpdateFn(Cur, "none").music.pos IN
                 music'.pos \in {Max(before - 200, 0), Min(before + 500, track_length)}
         /\ ~(interactive /\ state' = "Playing") =>
              /\ UpdateFn(Cur, "Left") = UpdateFn(Cur, "none")
              /\ UpdateFn(Cur, "Right") = UpdateFn(Cur, "none")
         /\ (interactive /\ state' = "Playing" /\ exercise_press = None) =>
              /\ UpdateFn(Cur, "Left").music.pos = Max(UpdateFn(Cur, "none").music.pos - 200, 0)
              /\ UpdateFn(Cur, "Right").music.pos =
                   Min(UpdateFn(Cur, "none").music.pos + 500, track_length)]_vars

\* the Left key was pressed less than 2 s into the music: both clocks are at 0
C25_Witness ==
    /\ pc = "render"
    /\ Pos("key.seek") # 0
    /\ state = "Playing"
    /\ music.pos = 0 /\ tm.now = 0
    /\ res_time < 0

\* the game runs: a frame loop state in which time passes and the music plays
Running == pc \in {"update", "render"} /\ ~tm.paused /\ ~music.paused

\* C26 as stated: whenever the time manager takes over a configured speed that
\* differs from its own by more than 0.01, the music has been recreated at
\* that speed; in every state in which the game runs, the music's playback
\* rate and the time manager's speed agree.
C26_RatesAgree ==
    Running => music.playback_rate = tm.speed

\* the resume button has set the game running with the time manager at half
\* speed and the music at full speed: an exercise-range reset had taken the
\* speed over before
C26_Witness ==
    /\ Running
    /\ mode = "Exercise"
    /\ Pos("button.resume") # 0
    /\ Pos("music.recreate") = 0
    /\ tm.speed = 500
    /\ music.playback_rate = 1000

\* C26, the part the code keeps: a render frame (the overlay's retry and
\* resume, the tweak page's save-speed button) or an enter that changes the
\* time manager's speed by more than 0.01 leaves a music made for that speed,
\* and outside Exercise mode the rates agree whenever the game runs.
C26_ButtonsRecreate ==
    [][/\ (IsRender \/ Pos("enter")' # 0) /\ tm'.speed # tm.speed /\ pc' # "popped" =>
            /\ tm'.speed = speed
            /\ music'.playback_rate = speed
       /\ (mode # "Exercise" /\ Running') => music'.playback_rate = tm'.speed]_vars

\* the characters of the allowed class, in their order, are five and spell
\* COMBO in Latin capitals, digits or look-alikes
Blank(text, a, b) == \A k \in (a + 1)..(b - 1) : text[k] \in {" ", "e_acute"}
LooksLikeCombo(text) ==
    \E p1 \in DOMAIN text :
      /\ text[p1] \in {"C", "Cyr_Es"} /\ Blank(text, 0, p1)
      /\ \E p2 \in (p1 + 1)..Len(text) :
           /\ text[p2] \in {"O", "Arm_Oh", "Gr_Omicron", "0"} /\ Blank(text, p1, p2)
           /\ \E p3 \in (p2 + 1)..Len(text) :
                /\ text[p3] \in {"M", "Gr_Mu"} /\ Blank(text, p2, p3)
                /\ \E p4 \in (p3 + 1)..Len(text) :
                     /\ text[p4] \in {"B", "Gr_Beta", "8"} /\ Blank(text, p3, p4)
                     /\ \E p5 \in (p4 + 1)..Len(text) :
                          /\ text[p5] \in {"O", "Arm_Oh", "Gr_Omicron", "0"}
                          /\ Blank(text, p4, p5)
                          /\ Blank(text, p5, Len(text) + 1)

C28_UploadProtocol ==
    [][LET old == IF ending = None THEN None ELSE ending[1].upload_task
           inEnding == pc \in {"e_touch", "e_background", "e_update", "e_next"}
           called == Pos("upload_fn")' # 0 /\ (IsUpdate \/ pc = "e_update")
       IN /\ (ending' # None /\ ending'[1].upload_task # None /\ old = None) => called
          /\ called =>
                /\ old = None
                /\ ending'[1].record_data # None
                /\ ending'[1].upload_task \in
                       {None, Some(UploadFn(ending'[1].record_data[1]))}
                /\ IsUpdate => Pos("ending.new")' # 0
                /\ pc = "e_update" => RE_UPLOAD
          /\ (RE_UPLOAD' /\ ~RE_UPLOAD) => (dialog /\ Pos("upload-retry")' # 0)
          /\ (dialog' /\ ~dialog) => (pc = "e_update" /\ Pos("upload-err")' # 0)
          /\ inEnding =>
                /\ ending'[1].record_data = ending[1].record_data
                /\ ending'[1].update_state # ending[1].update_state =>
                      /\ pc = "e_update" /\ Pos("upload-ok")' # 0
                      /\ ending'[1].update_state = Some("uploaded")
                /\ (pc = "e_update" /\ Pos("upload-err")' # 0) =>
                      ending'[1].update_state = ending[1].update_state]_vars

\* an update found RE_UPLOAD set, uploaded the record data again and the
\* upload succeeded
C28_Witness ==
    /\ pc = "e_next"
    /\ Pos("ending.update") # 0
    /\ Pos("upload_fn") # 0
    /\ Pos("upload-ok") # 0
    /\ ending[1].update_state = Some("uploaded")
    /\ ending[1].upload_task = None

\* the step is Note::update on a note that is held
HeldUpdate == pc = "n_update" /\ pc' = "n_render" /\ note[1].n.judge.tag = "Hold"

\* C29 as stated: when a held Hold is updated with res.time >=
\* next_particle_time, exactly one particle is emitted, of colour fx_perfect
\* iff perfect and neither all_good nor all_bad is set and fx_good otherwise,
\* and the new next_particle_time is the old one plus 30/bpm/speed; with
\* res.time < next_particle_time nothing is emitted and the note is unchanged.
C29_AdvanceFromDue ==
    [][HeldUpdate =>
          LET n == note[1].n
              res == note[1].res
          IN IF res.time >= n.judge.at
             THEN /\ note'[1].res.emitted = Append(res.emitted, ParticleColour(n, res))
                  /\ note'[1].n.judge.at = n.judge.at + ParticleInterval(n, res)
             ELSE /\ note'[1].res.emitted = res.emitted
                  /\ note'[1].n = n]_vars

\* C29, amended: when a held Hold is updated with res.time >=
\* next_particle_time, exactly one particle is emitted, of colour fx_perfect
\* iff perfect and neither all_good nor all_bad is set and fx_good otherwise,
\* and the new next_particle_time is res.time plus 30/bpm/speed; with
\* res.time < next_particle_time nothing is emitted and the judge status is
\* unchanged. In both cases the note's object is set to res.time and nothing
\* else of the note changes.
C29_AdvanceFromNow ==
    [][HeldUpdate =>
          LET n == note[1].n
              res == note[1].res
              bpm_now == IF n.format = "Pgr"
                         THEN (IF n.index * 100 >= 150 THEN 60 ELSE 120)
                         ELSE (IF n.time >= 150 THEN 60 ELSE 120)
              colour == IF n.judge.perfect /\ ~(res.all_good \/ res.all_bad)
                        THEN "fx_perfect" ELSE "fx_good"
              at == IF res.time >= n.judge.at
                    THEN res.time + (3000 * 1000) \div (bpm_now * res.speed)
                    ELSE n.judge.at
          IN /\ note'[1].res.emitted =
                    IF res.time >= n.judge.at THEN Append(res.emitted, colour)
                    ELSE res.emitted
             /\ note'[1].n = [n EXCEPT !.judge.at = at, !.object_time = res.time]
             /\ note'[1].res.time = res.time]_vars

\* a held Hold was updated in a frame later than its particle time: one
\* particle, and the next one is due an interval after the frame's time
C29_Witness ==
    /\ pc = "n_render"
    /\ Pos("note.update") # 0
    /\ note[1].n.judge.tag = "Hold"
    /\ Len(note[1].res.emitted) = 1
    /\ note[1].n.judge.at = note[1].res.time + 50
    /\ note[1].res.speed = 500
    /\ note[1].res.time = 150

\* the step is Note::render
IsNoteRender == pc = "n_render" /\ pc' = "n_tick"

\* C30: a render of a note that is Judged and not a Hold pushes no quad to
\* the note buffer; nor does a render of a Hold at res.time >= end_time, of a
\* fake note that is not a Hold at res.time >= time, or of a fake Hold at
\* res.time >= end_time.
C30_NoQuad ==
    [][IsNoteRender =>
          LET n == note[1].n
              t == note[1].res.time
              hold == n.kind = "Hold"
          IN (\/ (n.judge.tag = "Judged" /\ ~hold)
              \/ (hold /\ t >= n.end_time)
              \/ (n.fake /\ ~hold /\ t >= n.time)
              \/ (n.fake /\ hold /\ t >= n.end_time)) =>
                 note'[1].res.note_buffer = note[1].res.note_buffer]_vars

\* a Click that was judged in the frame of its time has been rendered in
\* that frame, and the note buffer is empty
C30_Witness ==
    /\ pc = "n_tick"
    /\ Pos("note.render") # 0
    /\ note[1].n.kind = "Click"
    /\ ~note[1].n.fake
    /\ note[1].n.judge.tag = "Judged"
    /\ note[1].res.time = note[1].n.time
    /\ note[1].res.note_buffer = <<>>

\* the step is Note::render of a note that is no Hold
FadeRender == IsNoteRender /\ note[1].n.kind # "Hold"

\* C31 as stated: for a note that is no Hold, drawn from above the line with
\* chart_debug off, the fade-out factor is 1 up to its time, falls linearly
\* from 1 to 0 over the FADEOUT_TIME that follows, and no quad is drawn from
\* FADEOUT_TIME after its time on; and in every configuration, chart_debug
\* included, the factor of a quad that is drawn is never negative.
C31_FadeNeverNegative ==
    [][FadeRender =>
          LET n == note[1].n
              t == note[1].res.time
              drawn == note'[1].res.fade
          IN /\ (~note'[1].res.draw_below /\ ~note'[1].res.chart_debug) =>
                   /\ t >= n.time + 16 => note'[1].res.note_buffer = <<>>
                   /\ \A i \in DOMAIN drawn :
                         drawn[i] = IF t <= n.time THEN 16 ELSE 16 - (t - n.time)
             /\ \A i \in DOMAIN drawn : drawn[i] >= 0]_vars

\* chart_debug is on and a Click that was never judged is drawn from above
\* the line more than FADEOUT_TIME after its time
C31_Witness ==
    /\ pc = "n_tick"
    /\ Pos("note.render") # 0
    /\ note[1].n.kind = "Click"
    /\ note[1].res.chart_debug /\ ~note[1].res.draw_below
    /\ note[1].res.time > note[1].n.time + 16
    /\ note[1].res.note_buffer # <<>>
    /\ note[1].res.fade # <<>>

\* C31, with chart_debug off: the factor is 1 up to the note's time, falls
\* linearly to 0 over FADEOUT_TIME, no quad is drawn from then on, and the
\* factor of a quad that is drawn is positive.
C31_FadeWithoutDebug ==
    [][(FadeRender /\ ~note'[1].res.chart_debug) =>
          LET n == note[1].n
              t == note[1].res.time
              drawn == note'[1].res.fade
          IN /\ ~note'[1].res.draw_below =>
                   /\ t >= n.time + 16 => note'[1].res.note_buffer = <<>>
                   /\ \A i \in DOMAIN drawn :
                         drawn[i] = IF t <= n.time THEN 16 ELSE 16 - (t - n.time)
             /\ \A i \in DOMAIN drawn : drawn[i] > 0]_vars

\* C32 as stated: in every state of the game scene a paused time manager
\* implies a paused music stream.
C32_PausedTogether ==
    (pc \in {"update", "render"} /\ tm.paused) => music.paused

\* a paused frame in which BeforeMusic ended: the music plays and the time
\* manager is paused
C32_Witness ==
    /\ pc = "render"
    /\ Pos("music.play") # 0
    /\ state = "Playing"
    /\ tm.paused
    /\ ~music.paused

\* C33 as stated: in the game scene config.disable_audio is true only while
\* a pause_rewind countdown is pending.
C33_MutedOnlyInCountdown ==
    (pc \in {"update", "render"} /\ disable_audio) => pause_rewind # None

\* the scene plays, no countdown is pending, and the hit sounds are muted
C33_Witness ==
    /\ pc = "update"
    /\ state = "Playing"
    /\ ~tm.paused /\ ~music.paused
    /\ pause_rewind = None
    /\ disable_audio

\* the step is a next_scene that returns something other than None
Leaves == pc = "update" /\ pc' \in {"overlaid", "popped"}

\* C34 as stated: whenever GameScene::next_scene returns something other
\* than None, the time manager is left with speed 1.0, adjust_time off and
\* not paused.
C34_TimeManagerRestored ==
    [][Leaves => (tm'.speed = 1000 /\ ~tm'.adjust_time /\ ~tm'.paused)]_vars

\* the offset-tweak page was closed while the scene was paused: the scene is
\* gone and the time manager is still paused
C34_Witness ==
    /\ pc = "popped"
    /\ mode = "TweakOffset"
    /\ Pos("PopWithResult") # 0
    /\ ~should_exit
    /\ tm.paused

\* C34, the part the code keeps: whenever next_scene returns something other
\* than None the time manager is left with speed 1.0 and adjust_time off, and
\* on an exit request it is left not paused.
C34_SpeedRestored ==
    [][Leaves => /\ tm'.speed = 1000 /\ ~tm'.adjust_time
                 /\ should_exit => ~tm'.paused]_vars

\* ------------------------------------------------------ the settings page
\* settings.rs:44, in centiseconds
SAVE_TIME == 50
\* the page is followed up to this time
MaxPageTime == 100
\* the time between two frames of the page
PageTicks == {20, 30}
\* the watermark texts the player may enter
Watermarks == {"", "pr"}
\* the tabs and buttons of the page that are looked at
PageTouches == {"tab_general", "tab_other", "offline", "watermark", "roman", "chinese"}

\* settings.rs:46-62: SettingsPage::new, over the data loaded from disk;
\* save_time = f32::INFINITY is None. asked: a text was requested and has not
\* been returned; changed_at: the time of the latest handler that changed a
\* setting not yet saved.
SettingsPageNew(data) ==
    [chosen |-> "General", save_time |-> None, t |-> 0, data |-> data, saved |-> data,
     asked |-> FALSE, changed_at |-> None, calls |-> <<>>]

\* save_data(): the data goes to disk
SaveData(p) ==
    [p EXCEPT !.saved = p.data, !.changed_at = None, !.calls = Append(@, "save_data")]

\* the handler changed a setting at the page's time
Noted(p, q) == IF q.data # p.data THEN [q EXCEPT !.changed_at = Some(p.t)] ELSE q

\* settings.rs:315-342: GeneralList::touch
GeneralListTouch(p, btn) ==
    IF btn = "offline"
    THEN [p |-> [p EXCEPT !.data.offline_mode = ~@], r |-> Some(TRUE)]
    ELSE [p |-> p, r |-> None]

\* the two switches toggled without a look at each other
OtherListTouchApart(p, btn) ==
    CASE btn = "watermark" -> [p |-> [p EXCEPT !.asked = TRUE], r |-> Some(TRUE)]
      [] btn = "roman" -> [p |-> [p EXCEPT !.data.roman = ~@], r |-> Some(TRUE)]
      [] btn = "chinese" -> [p |-> [p EXCEPT !.data.chinese = ~@], r |-> Some(TRUE)]
      [] OTHER -> [p |-> p, r |-> None]

\* settings.rs:667-709: OtherList::touch
OtherListTouch(p, btn) ==
    CASE btn = "watermark" -> [p |-> [p EXCEPT !.asked = TRUE], r |-> Some(TRUE)]
      [] btn = "roman" ->
           LET roman == ~p.data.roman
               chinese == IF roman /\ roman = p.data.chinese THEN ~roman ELSE p.data.chinese
           IN [p |-> [p EXCEPT !.data.roman = roman, !.data.chinese = chinese], r |-> Some(TRUE)]
      [] btn = "chinese" ->
           LET chinese == ~p.data.chinese
               roman == IF chinese /\ chinese = p.data.roman THEN ~chinese ELSE p.data.roman
           IN [p |-> [p EXCEPT !.data.roman = roman, !.data.chinese = chinese], r |-> Some(TRUE)]
      [] OTHER -> [p |-> p, r |-> None]

\* settings.rs:65-70: SettingsPage::switch_to_type
SwitchToType(p, ty) == [p EXCEPT !.chosen = ty]

\* settings.rs:87-136: SettingsPage::touch
SettingsTouch(p, btn) ==
    LET q == [p EXCEPT !.calls = <<"settings.touch">>] IN
    CASE btn = "tab_general" -> SwitchToType(q, "General")
      [] btn = "tab_other" -> SwitchToType(q, "Other")
      [] OTHER ->
           LET l == IF q.chosen = "General" THEN GeneralListTouch(q, btn)
                    ELSE OtherListTouch(q, btn)
           IN IF l.r = Some(TRUE) THEN Noted(p, [l.p EXCEPT !.save_time = Some(p.t)])
              ELSE l.p

\* settings.rs:344-366, 711-734: the chosen list's update; the text of a
\* watermark goes to the Other list
ListUpdate(p, input) ==
    IF p.chosen = "Other" /\ input # None
    THEN [p |-> [p EXCEPT !.data.watermark = input[1], !.asked = FALSE], r |-> TRUE]
    ELSE [p |-> p, r |-> FALSE]

\* settings.rs:138-155: SettingsPage::update
SettingsUpdate(p, input) ==
    LET l == ListUpdate([p EXCEPT !.calls = <<"settings.update">>], input)
        a == IF l.r THEN Noted(p, [l.p EXCEPT !.save_time = Some(p.t)]) ELSE l.p
    IN IF a.save_time # None /\ a.t > a.save_time[1] + SAVE_TIME
       THEN [SaveData(a) EXCEPT !.save_time = None]
       ELSE a

\* settings.rs:79-85: SettingsPage::exit
SettingsExit(p) ==
    LET a == [p EXCEPT !.calls = <<"settings.exit">>] IN
    IF a.save_time # None THEN SaveData(a) ELSE a

page_rest == <<config, scene, since_tap, RE_UPLOAD, dialog, loading, effect, chart, result,
               cfg, note, stored>>

PutPage(p) ==
    /\ page' = Some([p EXCEPT !.calls = <<>>])
    /\ calls' = p.calls

\* the time of the next frame
PageTick ==
    /\ pc = "page"
    /\ \E dt \in PageTicks :
         /\ page[1].t + dt <= MaxPageTime
         /\ PutPage([page[1] EXCEPT !.t = @ + dt])
    /\ UNCHANGED <<pc, page_rest>>

PageTouch ==
    /\ pc = "page"
    /\ \E btn \in PageTouches : PutPage(SettingsTouch(page[1], btn))
    /\ UNCHANGED <<pc, page_rest>>

\* a frame's update; a text that was asked for may have been returned
PageUpdate ==
    /\ pc = "page"
    /\ \E input \in {None} \cup {Some(w) : w \in Watermarks} :
         /\ input # None => page[1].asked
         /\ PutPage(SettingsUpdate(page[1], input))
    /\ UNCHANGED <<pc, page_rest>>

PageExit ==
    /\ pc = "page"
    /\ PutPage(SettingsExit(page[1]))
    /\ pc' = "page_exited"
    /\ UNCHANGED page_rest

NextSettings ==
    \/ PageTick
    \/ PageTouch
    \/ PageUpdate
    \/ PageExit

\* A settings page over data in which at most one of the two number styles
\* is on
InitSettings ==
    /\ pc = "page"
    /\ GameNew
    /\ mode = "Normal" /\ interactive /\ ~double_click_to_pause /\ offset = 0
    /\ PlainRun
    /\ loading = None
    /\ effect = None
    /\ chart = None
    /\ result = None
    /\ cfg = None
    /\ note = None
    /\ stored = None
    /\ \E roman \in BOOLEAN, chinese \in BOOLEAN :
         /\ ~(roman /\ chinese)
         /\ page = Some(SettingsPageNew([offline_mode |-> FALSE, roman |-> roman,
                                         chinese |-> chinese, watermark |-> ""]))
SpecSettings == InitSettings /\ [][NextSettings]_vars

\* ------------------------------------------------------ the local record
\* the scores and the accuracies (in hundredths) of the records looked at
RecordScores == {0, 685000, 1000000}
Accuracies == {0, 65, 100}
Records ==
    {[score |-> sc, accuracy |-> a, full_combo |-> fc] :
        sc \in RecordScores, a \in Accuracies, fc \in BOOLEAN}

\* a merge that takes the other record whole when its score is higher
SimpleRecordTakeBetter(rec, other) ==
    IF other.score > rec.score THEN [rec |-> other, changed |-> TRUE]
    ELSE [rec |-> rec, changed |-> FALSE]

\* game.rs:64-81: SimpleRecord::update
SimpleRecordUpdate(rec, other) ==
    LET a == IF other.score > rec.score
             THEN [rec |-> [rec EXCEPT !.score = other.score], changed |-> TRUE]
             ELSE [rec |-> rec, changed |-> FALSE]
        b == IF other.accuracy > a.rec.accuracy
             THEN [rec |-> [a.rec EXCEPT !.accuracy = other.accuracy], changed |-> TRUE]
             ELSE a
    IN IF other.full_combo /\ ~b.rec.full_combo
       THEN [rec |-> [b.rec EXCEPT !.full_combo = other.full_combo], changed |-> TRUE]
       ELSE b

record_rest == <<config, scene, since_tap, RE_UPLOAD, dialog, loading, effect, chart, result,
                 cfg, note, page>>

\* the record of a run is merged into the stored one
RecordUpdate ==
    /\ pc = "rec"
    /\ LET u == SimpleRecordUpdate(stored[1].rec, stored[1].other) IN
         stored' = Some([stored[1] EXCEPT !.rec = u.rec, !.returned = Some(u.changed),
                                          !.applied = TRUE])
    /\ calls' = <<"record.update">>
    /\ UNCHANGED <<pc, record_rest>>

\* another run ends with its record
RecordPlay ==
    /\ pc = "rec"
    /\ \E other \in Records :
         stored' = Some([stored[1] EXCEPT !.other = other, !.applied = FALSE])
    /\ calls' = <<"record.new">>
    /\ UNCHANGED <<pc, record_rest>>

NextRecord ==
    \/ RecordUpdate
    \/ RecordPlay

InitRecord ==
    /\ pc = "rec"
    /\ GameNew
    /\ mode = "Normal" /\ interactive /\ ~double_click_to_pause /\ offset = 0
    /\ PlainRun
    /\ loading = None
    /\ effect = None
    /\ chart = None
    /\ result = None
    /\ cfg = None
    /\ note = None
    /\ page = None
    /\ \E rec \in Records, other \in Records :
         stored = Some([rec |-> rec, other |-> other, returned |-> None, applied |-> FALSE])
SpecRecord == InitRecord /\ [][NextRecord]_vars

\* ------------------------------------------------------------------- C35
\* the last handler edited the exercise range
RangeEdited == exercise_range' # exercise_range

\* the last handler turned a text input down
TextRejected ==
    \E i \in DOMAIN calls' : calls'[i] \in {"ex-time-out-of-range", "ex-invalid-format"}

\* C35 (as stated): the exercise range stays well-formed: start <= end <=
\* track_length after every handler, every accepted edit on a track longer
\* than 3 s leaves start + 3 <= end, a rejected text input leaves the range
\* unchanged, and no edit calls clamp with a lower bound above the upper one.
C35_RangeWellFormed ==
    [][pc' \in {"update", "render", "aborted"} =>
         /\ exercise_range'.start <= exercise_range'.end
         /\ exercise_range'.end <= track_length
         /\ (RangeEdited /\ track_length > EXERCISE_GAP)
              => exercise_range'.start + EXERCISE_GAP <= exercise_range'.end
         /\ TextRejected => ~RangeEdited
         /\ \A i \in DOMAIN calls' : calls'[i] # "clamp.panic"]_vars

\* C35: everything the claim says of the range itself: start <= end <=
\* track_length, an accepted edit on a track longer than 3 s leaves
\* start + 3 <= end, and a rejected text leaves the range as it was.
C35_RangeKept ==
    [][pc' \in {"update", "render", "aborted"} =>
         /\ exercise_range'.start <= exercise_range'.end
         /\ exercise_range'.end <= track_length
         /\ (RangeEdited /\ track_length > EXERCISE_GAP)
              => exercise_range'.start + EXERCISE_GAP <= exercise_range'.end
         /\ TextRejected => ~RangeEdited]_vars

\* the end handle is dragged on a 3.2 s track whose range still starts at the
\* total offset of 0.5 s: clamp(start + 3, track_length) has crossed bounds
C35_Witness ==
    /\ pc = "aborted"
    /\ Pos("clamp.panic") # 0
    /\ exercise_press = Some(1)
    /\ exercise_range.start + EXERCISE_GAP > track_length
    /\ track_length - Sp > EXERCISE_GAP

\* ------------------------------------------------------------------- C36
\* the three buttons of the pause overlay
OverlayTaps == {tch \in Taps : tch.kind \in {"back", "retry", "resume"}}

\* a frame without a touch
NoTap == [kind |-> "none", p |-> 0]

\* what a frame leaves of the scene, the calls it made aside
Left(g) == [g EXCEPT !.calls = <<>>]

IsPageTouch == pc = "page" /\ calls' # <<>> /\ calls'[1] = "settings.touch"
IsPageUpdate == pc = "page" /\ calls' # <<>> /\ calls'[1] = "settings.update"
IsPageExit == pc = "page" /\ pc' = "page_exited"

\* the handler of the step called save_data
Saves == \E i \in DOMAIN calls' : calls'[i] = "save_data"

\* the time of the most recent unsaved change, the step's own included
ChangedAt == IF page'[1].data # page[1].data THEN Some(page[1].t) ELSE page[1].changed_at

\* C37 (as stated): the settings page persists every change: an update calls
\* save_data exactly when a change is pending and the update is more than
\* SAVE_TIME after the most recent change, exit calls it exactly when a
\* change is pending, and a touch never does; a saved page has its data on
\* disk.
C37_SavedAfterChange ==
    [][/\ IsPageUpdate =>
            (Saves <=> (ChangedAt # None /\ page[1].t > ChangedAt[1] + SAVE_TIME))
       /\ IsPageExit => (Saves <=> page[1].changed_at # None)
       /\ IsPageTouch => ~Saves
       /\ (pc = "page" /\ Saves) => page'[1].saved = page'[1].data]_vars

\* C37 (what the timer does): every unsaved change has the timer set, at or
\* after the change; an update saves exactly when, its own list's report
\* taken in, the timer is set and the update is more than SAVE_TIME after it,
\* and then clears the timer; exit saves exactly when the timer is set; a
\* touch never saves; a save puts the data on disk.
C37_SavedAfterTimer ==
    [][pc = "page" =>
         LET p == page[1]
             q == page'[1]
         IN /\ q.changed_at # None =>
                  (q.save_time # None /\ q.save_time[1] >= q.changed_at[1])
            /\ IsPageUpdate =>
                  /\ Saves => (q.save_time = None /\ q.changed_at = None)
                  /\ ~Saves => (q.save_time = None \/ p.t <= q.save_time[1] + SAVE_TIME)
                  /\ (p.save_time = None /\ ~p.asked) => ~Saves
            /\ IsPageExit => (Saves <=> p.save_time # None)
            /\ IsPageTouch => ~Saves
            /\ Saves => q.saved = q.data]_vars

\* an update more than SAVE_TIME after the most recent change has not saved:
\* a tap that only asked for a text has set the timer again
C37_Witness ==
    /\ pc = "page"
    /\ calls = <<"settings.update">>
    /\ page[1].changed_at # None
    /\ page[1].t > page[1].changed_at[1] + SAVE_TIME
    /\ page[1].save_time # None
    /\ page[1].save_time[1] > page[1].changed_at[1]
    /\ page[1].data # page[1].saved

\* ------------------------------------------------------------------- C38
\* C38: config.roman and config.chinese are never both on, and a tap that
\* turns one of them on leaves the other off.
C38_OneNumberStyle ==
    [][pc = "page" =>
         LET p == page[1].data
             q == page'[1].data
         IN /\ ~(q.roman /\ q.chinese)
            /\ (~p.roman /\ q.roman) => ~q.chinese
            /\ (~p.chinese /\ q.chinese) => ~q.roman]_vars

\* the roman switch was tapped while chinese was on, as it is on disk: roman
\* is on and chinese is off
C38_Witness ==
    /\ pc = "page"
    /\ calls = <<"settings.touch">>
    /\ page[1].saved.chinese
    /\ page[1].data.roman /\ ~page[1].data.chinese
    /\ page[1].changed_at = Some(page[1].t)

\* ------------------------------------------------------------------- C39
IsRecordUpdate == pc = "rec" /\ calls' = <<"record.update">>

\* C39: SimpleRecord::update is a monotone merge: afterwards score and
\* accuracy are the larger of the two records' values and full_combo is set
\* when it was in either; no field gets worse; it returns true exactly when a
\* field changed; and the same record merged again changes nothing and
\* returns false.
C39_MonotoneMerge ==
    [][IsRecordUpdate =>
         LET old == stored[1].rec
             other == stored[1].other
             new == stored'[1].rec
             returned == stored'[1].returned[1]
         IN /\ new.score = Max(old.score, other.score)
            /\ new.accuracy = Max(old.accuracy, other.accuracy)
            /\ new.full_combo = (old.full_combo \/ other.full_combo)
            /\ new.score >= old.score /\ new.accuracy >= old.accuracy
            /\ old.full_combo => new.full_combo
            /\ returned = (new # old)
            /\ stored[1].applied => (new = old /\ ~returned)]_vars

\* a record with the higher accuracy and a full combo but the lower score was
\* merged in: update returned true, the score stayed, the other two fields
\* were taken
C39_Witness ==
    /\ pc = "rec"
    /\ calls = <<"record.update">>
    /\ stored[1].returned = Some(TRUE)
    /\ stored[1].rec.score > stored[1].other.score
    /\ stored[1].rec.accuracy = stored[1].other.accuracy
    /\ stored[1].rec.full_combo /\ stored[1].other.full_combo

====
